---- MODULE Spec2Model ----
(***************************************************************************)
(* Steering ledger and auto-steer orchestration of the steering-interface  *)
(* backend (backend/services/variant_service.py, llm_service.py and the    *)
(* handlers of backend/routers/variant.py), the conversation service      *)
(* (backend/services/conversation_service.py), and the chat completion     *)
(* service of backend/src/core/services (completion_service.py with the    *)
(* variant manager, the analysis service and the feature service).         *)
(*                                                                         *)
(* Strengths are floats in the code; the model keeps them in tenths, so    *)
(* 1.0 is 10 and the range check -1.0 <= v <= 1.0 is -10 <= v <= 10.       *)
(* A Python str is a sequence of one-character strings, a dict is a        *)
(* function with a finite domain.                                          *)
(*                                                                         *)
(* Every request is a coroutine on one asyncio loop: a task runs without   *)
(* interruption between two awaits, so every action below is the code from *)
(* one suspension point (or the start of the handler) to the next.         *)
(***************************************************************************)
EXTENDS Integers, Sequences, FiniteSets, TLC

\* Number of requests that can be in flight at the same time.
MaxTasks == 1
\* Longest keyword list the analysis capability returns in the model.
MaxKeywords == 2
\* Longest keyword list handed to the keyword-length guard on its own.
MaxGuardKeywords == 3
\* Most chunks one upstream stream delivers.
MaxChunks == 2
\* Most features one query analysis names (style, reasoning and knowledge
\* together).
MaxAnalysisFeatures == 1
\* Most requests to the variant router that start while one conversation
\* request is suspended.
MaxDisturbances == 1

DEMO_VARIANT_ID == "demo-variant"
STRENGTH_MAX == 10
SEARCH_TOP_K_MAX == 100
AUTO_STEER_TOP_K == 10
QUERY_LIMIT == 100
KEYWORD_LIMIT == 5
\* The range check of lines 388 and 439 of llm_service.py, and the cap of
\* lines 409-412.
FALLBACK_VALUE_MAX == 6
FALLBACK_LIMIT == 2

\* Longest selection list the analysis capability returns: one more than
\* the two the function schema asks for.
MaxSelections == FALLBACK_LIMIT + 1

Tasks == 1..MaxTasks
VariantIds == {DEMO_VARIANT_ID, "other-variant"}
\* Feature ids the external service knows, and one it does not know.
KnownFeatures == {"humor", "formality"}
FeatureIds == KnownFeatures \cup {"missing"}
\* Strengths a client sends: both ends of the range, zero, and the first
\* value out of range on either side.
Strengths == {-11, -10, 0, 10, 11}
TopKs == {0, 1, SEARCH_TOP_K_MAX, SEARCH_TOP_K_MAX + 1}
\* The same with a negative top_k and one well above the limit.
SearchTopKs == TopKs \cup {-1, 2 * SEARCH_TOP_K_MAX}

NoId == "-"
EmptyStr == <<>>
EmptyDict == [k \in {} |-> 0]

----------------------------------------------------------------------------
\* Python dict operations.

DictSet(d, k, v) == [x \in (DOMAIN d) \cup {k} |-> IF x = k THEN v ELSE d[x]]

DictDel(d, k) == [x \in (DOMAIN d) \ {k} |-> d[x]]

\* d.get(k, default)
DictGet(d, k, default) == IF k \in DOMAIN d THEN d[k] ELSE default

----------------------------------------------------------------------------
VARIABLES
    modified,   \* VariantService._variant_modified_features (confirmed edits)
    pending,    \* VariantService._variant_pending_features
    task,       \* per request: position, arguments, locals and the response
    lastOp,     \* history: the last ledger operation that succeeded and
                \* what it met (see Op)
    proposed    \* history: feature -> value last proposed since the last
                \* successful commit or reject

vars == <<modified, pending, task, lastOp, proposed>>
ledger == <<modified, pending>>
history == <<lastOp, proposed>>

VARIABLES
    call        \* one call of an LLMService method made on its own: the
                \* method, its position, its arguments and what it returned

VARIABLES
    variants,   \* VariantManager.variants: session id -> variant id -> the
                \* reference of a Variant object
    objects,    \* the Variant objects by reference: the edits set on each
                \* (feature label -> value in tenths)
    comp        \* the completion request in flight: position, arguments,
                \* locals, what it has emitted and returned, and history

completion == <<variants, objects, comp>>

VARIABLES
    conversation_messages,
                \* ConversationService._conversation_messages: conversation
                \* id -> number of stored messages
    conversation_activated_features,
                \* ConversationService._conversation_activated_features:
                \* conversation id -> set of feature uuids (each with its
                \* label)
    conv        \* the ConversationService request (or the call of
                \* build_ember_variant) in flight: position, arguments,
                \* locals, what it returned, and history

conversation == <<conversation_messages, conversation_activated_features, conv>>

VARIABLES
    raced       \* history of two clients of the variant router: the tasks
                \* whose steer request reached its lookup while another
                \* steer request for the same variant and feature was
                \* suspended at its own

VARIABLES
    requested   \* history of the clients of the search router: per task
                \* the variant id, query and top_k of the search request it
                \* carries, <<>> when it carries none

VARIABLES
    mgr         \* one call of a VariantManager method or of
                \* FeatureService.steer_feature made on its own: position,
                \* arguments, locals, what it returned, and history

\* What the handlers of the variant router never touch.
outside_ledger == <<call, completion, conversation, mgr, raced, requested>>

\* A request that has not started; also the shape of every task record.
\* status is the HTTP outcome the router produces: "ok", "e400" or "e500".
\* vid is the variant id of the request (for auto_steer the one of the path,
\* cvid the current_variant_id of the body).  nkw is the length of the list
\* generate_search_keywords returned and nfound the number of features the
\* search returned, -1 while there is none or when the call raised.
IdleTask ==
    [pc |-> "idle", op |-> "none", vid |-> NoId, cvid |-> NoId, fid |-> NoId,
     val |-> 0, query |-> EmptyStr, topk |-> 0, nkw |-> -1, nfound |-> -1,
     status |-> "none", success |-> FALSE, ret |-> 0, keywords |-> <<>>,
     features |-> <<>>, truncated_keywords |-> <<>>]

\* The response leaves the handler: the task keeps the request's ids and
\* the response.
Respond(old, status, success, ret, keywords, features) ==
    [IdleTask EXCEPT !.pc = "done", !.op = old.op, !.vid = old.vid,
                     !.cvid = old.cvid, !.fid = old.fid, !.nkw = old.nkw,
                     !.nfound = old.nfound, !.status = status,
                     !.success = success, !.ret = ret,
                     !.keywords = keywords, !.features = features]

Failed(old, status) == Respond(old, status, FALSE, 0, <<>>, <<>>)

\* The request as the handler receives it.
Request(op, variant_id) == [IdleTask EXCEPT !.op = op, !.vid = variant_id]

\* History record of a ledger operation.  repeat: the operation before it
\* was the same one; removed: a commit deleted a confirmed entry; skipped: a
\* commit met a zero for a feature without confirmed entry; dropped: a
\* reject discarded a pending entry.
Op(name) ==
    [op |-> name, repeat |-> FALSE, removed |-> FALSE, skipped |-> FALSE,
     dropped |-> FALSE]

CanStart(t) == task[t].pc = "idle"

\* The client has received the response; the slot takes the next request.
Deliver(t) ==
    /\ task[t].pc = "done"
    /\ task' = [task EXCEPT ![t] = IdleTask]
    /\ UNCHANGED <<ledger, history>>

\* No call of an LLMService method is under way.
IdleCall ==
    [pc |-> "idle", fn |-> "none", keywords |-> <<>>, search_results |-> <<>>,
     label |-> <<>>, path |-> "none", raised |-> FALSE, result |-> <<>>]

\* variant_id=None (or the empty str: every use is `variant_id or "default"`).
NoVariantId == ""

\* No response yet; also the shape of a response.  kind is "response" for a
\* returned ChatResponse and "raised" for an exception that leaves
\* create_chat_completion.
NoResponse ==
    [kind |-> "none", content |-> EmptyStr, variant_id |-> NoVariantId,
     auto_steered |-> FALSE, auto_steer_result |-> <<>>]

\* No completion request in flight; also the shape of comp.  The fields
\* from stages on are history: the stages entered, the arguments of
\* every get_variant call, the upstream generation calls with the edits
\* the variant carried when the call was sent, the number of analysis and
\* search calls, the variant's edits when the request began, and whether an
\* upstream call of a stage raised.
IdleComp ==
    [pc |-> "idle", stream |-> FALSE, auto_steer |-> FALSE,
     session_id |-> NoId, variant_id |-> NoVariantId, last_is_user |-> FALSE,
     variant |-> 0, all_features |-> <<>>, index |-> 0, best_match |-> NoId,
     target |-> 0, steered_features |-> <<>>, original_content |-> EmptyStr,
     steered_content |-> EmptyStr, source |-> "none", chunks |-> 0,
     events |-> <<>>,
     response |-> NoResponse,
     stages |-> <<>>, lookups |-> <<>>, generations |-> <<>>,
     analysis_calls |-> 0, search_calls |-> 0, edits_before |-> EmptyDict,
     applied |-> <<>>, failed |-> FALSE, pipeline_failed |-> FALSE,
     generation_failed |-> FALSE]

\* No ConversationService request is under way.  variant is the
\* goodfire.Variant being built: the (feature, value) pairs set on it, in
\* the order of the set calls.  size and visited are the state of the
\* iterator over the confirmed edits (size -1 when there is none), current
\* and value the item of the loop.  status is "ok" or "raised" once the
\* call is over, result what it returned.  History: visits is the order in
\* which the loop of build_ember_variant took the features and resolved
\* those whose lookup returned the feature; disturbances counts the
\* requests to the variant router that started while the request was
\* suspended, and disturbed says that one of them changed the confirmed
\* edits, ledger_changed that one of them changed the confirmed or the
\* pending edits; omitted holds the features the loop of get_table_features
\* skipped; generated_with is <<>> or <<v>> for the Variant
\* v sent with the generation request of send_message.
IdleConv ==
    [pc |-> "idle", op |-> "none", conversation_id |-> NoId,
     variant_id |-> NoId, variant |-> <<>>, size |-> -1, visited |-> {},
     current |-> NoId, value |-> 0, top |-> <<>>, features |-> <<>>,
     missing |-> {}, table |-> <<>>, status |-> "none", result |-> <<>>,
     visits |-> <<>>, resolved |-> {}, disturbed |-> FALSE,
     ledger_changed |-> FALSE, omitted |-> {},
     disturbances |-> 0,
     generated_with |-> <<>>, inspect_failed |-> FALSE]

\* No call of the variant manager is under way.  variant is the reference
\* of the Variant the call holds (0 for none), status "ok" or "not_found"
\* (ValueError) once the call is over, result what it returned: <<r>> with
\* a reference, a snapshot or a response.  History: seen says that the
\* session had an entry in the store when the call began, known that the
\* variant id of the call (the source id of create_variant) had one, and
\* created is the id a create_variant call generated.
IdleMgr ==
    [pc |-> "idle", op |-> "none", session_id |-> "-", variant_id |-> "",
     variant |-> 0, feature |-> "-", value |-> 0, status |-> "none",
     result |-> <<>>, seen |-> FALSE, known |-> FALSE, created |-> "",
     query |-> <<>>, top_k |-> 0, searches |-> <<>>, answered |-> "none",
     found |-> <<>>, applied |-> <<>>]

Init ==
    /\ conversation_messages = EmptyDict
    /\ conversation_activated_features = EmptyDict
    /\ conv = IdleConv
    /\ mgr = IdleMgr
    /\ raced = {}
    /\ requested = [t \in Tasks |-> <<>>]
    /\ variants = EmptyDict
    /\ objects = <<>>
    /\ comp = IdleComp
    /\ modified = EmptyDict
    /\ pending = EmptyDict
    /\ task = [t \in Tasks |-> IdleTask]
    /\ lastOp = Op("none")
    /\ proposed = EmptyDict
    /\ call = IdleCall

----------------------------------------------------------------------------
\* VariantService.create_unified_feature: the confirmed value (0 when none)
\* and the pending value (None when none) of one feature, as shown to the
\* client.
\* An Optional[float] is <<>> for None and <<x>> for the value x.
None == <<>>

CreateUnifiedFeature(m, p, feature_uuid, variant_id) ==
    LET confirmed_features == DictGet(m, variant_id, EmptyDict)
        pending_features == DictGet(p, variant_id, EmptyDict)
    IN [uuid |-> feature_uuid,
        modification |-> DictGet(confirmed_features, feature_uuid, 0),
        pending_modification |->
            IF feature_uuid \in DOMAIN pending_features
            THEN <<pending_features[feature_uuid]>> ELSE None]

----------------------------------------------------------------------------
\* Variant of InRange that forgets the lower end of the range.
InRangeUpperOnly(v) == v <= STRENGTH_MAX

\* steer_feature (propose).  The range check of line 96.
InRange(v) == (-STRENGTH_MAX <= v) /\ (v <= STRENGTH_MAX)

\* Variant of StorePending that replaces the variant's pending dict by one
\* that holds this feature only.
StorePendingAlone(p, variant_id, feature_uuid, value) ==
    DictSet(p, variant_id, DictSet(EmptyDict, feature_uuid, value))

\* Variant of StorePending with pending dicts that belong to the
\* VariantService instance of the request (get_variant_service makes one
\* for every request): the write is lost to the dict of the class, which
\* the instances of later requests read.
StorePendingOnInstance(p, variant_id, feature_uuid, value) == p

\* Variant of StorePending that keeps an existing pending value (setdefault
\* instead of assignment).
StorePendingKeepFirst(p, variant_id, feature_uuid, value) ==
    IF feature_uuid \in DOMAIN DictGet(p, variant_id, EmptyDict)
    THEN p
    ELSE DictSet(p, variant_id,
                 DictSet(DictGet(p, variant_id, EmptyDict), feature_uuid, value))

\* Lines 111-116: create the variant's pending dict when absent, then store.
StorePending(p, variant_id, feature_uuid, value) ==
    DictSet(p, variant_id,
            DictSet(DictGet(p, variant_id, EmptyDict), feature_uuid, value))

\* Lines 89-102: the two validations, then the await of features._list.
SteerStart(t, variant_id, feature_uuid, value) ==
    /\ CanStart(t)
    /\ LET req == [Request("steer", variant_id) EXCEPT !.fid = feature_uuid,
                                                         !.val = value]
       IN task' = [task EXCEPT ![t] =
              IF variant_id # DEMO_VARIANT_ID \/ ~InRange(value)
              THEN Failed(req, "e400")
              ELSE [req EXCEPT !.pc = "lookup"]]
    /\ UNCHANGED <<ledger, history>>

\* What features._list(ids=[id]) can answer: the feature, nothing, an error.
LookupOutcomes(feature_uuid) ==
    IF feature_uuid \in KnownFeatures THEN {"found", "raise"}
                                      ELSE {"empty", "raise"}

\* Lines 103-124: the lookup answers; an empty answer and an error both end
\* in ValueError (400), otherwise the pending value is overwritten.
SteerFinish(t) ==
    /\ task[t].pc = "lookup"
    /\ task[t].op = "steer"
    /\ \E outcome \in LookupOutcomes(task[t].fid) :
         IF outcome = "found"
         THEN /\ pending' = StorePending(pending, task[t].vid, task[t].fid,
                                         task[t].val)
              /\ task' = [task EXCEPT ![t] =
                     Respond(task[t], "ok", TRUE, task[t].val, <<>>, <<>>)]
              /\ lastOp' = Op("steer")
              /\ proposed' = DictSet(proposed, task[t].fid, task[t].val)
         ELSE /\ pending' = pending
              /\ task' = [task EXCEPT ![t] = Failed(task[t], "e400")]
              /\ UNCHANGED history
    /\ UNCHANGED modified

----------------------------------------------------------------------------
\* Variant of CommitItem that never deletes: a zero leaves the confirmed
\* entry in place.
CommitItemNoDelete(c, feature_uuid, value) ==
    IF value = 0 THEN c ELSE DictSet(c, feature_uuid, value)

\* Variant of CommitItem without the zero test: a zero is stored like any
\* other value.
CommitItemStoreZero(c, feature_uuid, value) == DictSet(c, feature_uuid, value)

\* commit_changes, lines 160-172: one pending item moved into the confirmed
\* dict c.
CommitItem(c, feature_uuid, value) ==
    IF value = 0
    THEN IF feature_uuid \in DOMAIN c THEN DictDel(c, feature_uuid) ELSE c
    ELSE DictSet(c, feature_uuid, value)

\* The loop of line 161 over the items of the pending dict pend.
RECURSIVE CommitLoop(_, _, _)
CommitLoop(c, pend, todo) ==
    IF todo = {} THEN c
    ELSE LET f == CHOOSE x \in todo : TRUE
         IN CommitLoop(CommitItem(c, f, pend[f]), pend, todo \ {f})

\* Variant of CommitChanges that keeps the pending edits after moving them.
CommitChangesKeepPending(m, p, variant_id) ==
    LET pending_features == DictGet(p, variant_id, EmptyDict)
    IN IF pending_features = EmptyDict
       THEN [m |-> m, p |-> p, status |-> "ok"]
       ELSE [m |-> DictSet(m, variant_id,
                       CommitLoop(DictGet(m, variant_id, EmptyDict),
                                  pending_features, DOMAIN pending_features)),
             p |-> p,
             status |-> "ok"]

\* Lines 146-178 for a known variant: the new dicts and the response.
CommitChanges(m, p, variant_id) ==
    LET pending_features == DictGet(p, variant_id, EmptyDict)
    IN IF pending_features = EmptyDict
       THEN [m |-> m, p |-> p, status |-> "ok"]
       ELSE [m |-> DictSet(m, variant_id,
                       CommitLoop(DictGet(m, variant_id, EmptyDict),
                                  pending_features, DOMAIN pending_features)),
             p |-> DictSet(p, variant_id, EmptyDict),
             status |-> "ok"]

\* commit_changes has no await: the whole handler is one step.
Commit(t, variant_id) ==
    /\ CanStart(t)
    /\ IF variant_id # DEMO_VARIANT_ID
       THEN /\ task' = [task EXCEPT ![t] =
                   Failed(Request("commit", variant_id), "e400")]
            /\ UNCHANGED <<ledger, history>>
       ELSE LET r == CommitChanges(modified, pending, variant_id)
            IN /\ modified' = r.m
               /\ pending' = r.p
               /\ task' = [task EXCEPT ![t] =
                      Respond(Request("commit", variant_id), r.status,
                              r.status = "ok", 0, <<>>, <<>>)]
               /\ IF r.status = "ok"
                  THEN /\ lastOp' =
                            LET c == DictGet(modified, variant_id, EmptyDict)
                                pe == DictGet(pending, variant_id, EmptyDict)
                            IN [Op("commit") EXCEPT
                                   !.repeat = (lastOp.op = "commit"),
                                   !.removed = (\E f \in DOMAIN pe \cap DOMAIN c :
                                                   pe[f] = 0),
                                   !.skipped = (\E f \in DOMAIN pe \ DOMAIN c :
                                                   pe[f] = 0)]
                       /\ proposed' = EmptyDict
                  ELSE UNCHANGED history

\* Variant of RejectChanges that discards the confirmed edits as well.
RejectChangesAll(m, p, variant_id) ==
    [m |-> DictSet(m, variant_id, EmptyDict),
     p |-> DictSet(p, variant_id, EmptyDict), status |-> "ok"]

\* Variant of RejectChanges that fails when nothing is pending, as the
\* "no pending changes" warning of line 205 suggests.
RejectChangesRequirePending(m, p, variant_id) ==
    LET pending_features == DictGet(p, variant_id, EmptyDict)
    IN IF pending_features = EmptyDict
       THEN [m |-> m, p |-> p, status |-> "e400"]
       ELSE [m |-> m, p |-> DictSet(p, variant_id, EmptyDict), status |-> "ok"]

\* reject_changes, lines 198-212 for a known variant.
RejectChanges(m, p, variant_id) ==
    LET pending_features == DictGet(p, variant_id, EmptyDict)
    IN IF pending_features = EmptyDict
       THEN [m |-> m, p |-> p, status |-> "ok"]
       ELSE [m |-> m, p |-> DictSet(p, variant_id, EmptyDict), status |-> "ok"]

Reject(t, variant_id) ==
    /\ CanStart(t)
    /\ IF variant_id # DEMO_VARIANT_ID
       THEN /\ task' = [task EXCEPT ![t] =
                   Failed(Request("reject", variant_id), "e400")]
            /\ UNCHANGED <<ledger, history>>
       ELSE LET r == RejectChanges(modified, pending, variant_id)
            IN /\ modified' = r.m
               /\ pending' = r.p
               /\ task' = [task EXCEPT ![t] =
                      Respond(Request("reject", variant_id), r.status,
                              r.status = "ok", 0, <<>>, <<>>)]
               /\ IF r.status = "ok"
                  THEN /\ lastOp' =
                            [Op("reject") EXCEPT
                                !.repeat = (lastOp.op = "reject"),
                                !.dropped =
                                    (DictGet(pending, variant_id, EmptyDict)
                                         # EmptyDict)]
                       /\ proposed' = EmptyDict
                  ELSE UNCHANGED history

----------------------------------------------------------------------------
\* Python str operations on sequences of characters.

\* Iterating a str gives its characters as strs of length one.
CharsOf(s) == [i \in 1..Len(s) |-> <<s[i]>>]

\* " ".join(words)
RECURSIVE Join(_)
Join(words) ==
    IF Len(words) = 0 THEN EmptyStr
    ELSE IF Len(words) = 1 THEN words[1]
    ELSE words[1] \o <<" ">> \o Join(Tail(words))

RECURSIVE LStrip(_)
LStrip(s) == IF Len(s) > 0 /\ s[1] = " " THEN LStrip(Tail(s)) ELSE s

RECURSIVE RStrip(_)
RStrip(s) ==
    IF Len(s) > 0 /\ s[Len(s)] = " " THEN RStrip(SubSeq(s, 1, Len(s) - 1)) ELSE s

\* s.strip()
Strip(s) == RStrip(LStrip(s))

\* s.lower(), on the alphabet of the model
Lower(s) == [i \in 1..Len(s) |-> IF s[i] = "W" THEN "w" ELSE s[i]]

\* [x for x in xs if keep(x)]
RECURSIVE NonBlank(_)
NonBlank(xs) ==
    IF Len(xs) = 0 THEN <<>>
    ELSE IF Strip(xs[1]) # EmptyStr THEN <<xs[1]>> \o NonBlank(Tail(xs))
    ELSE NonBlank(Tail(xs))

\* xs[:n]
Prefix(xs, n) == SubSeq(xs, 1, IF Len(xs) < n THEN Len(xs) ELSE n)

----------------------------------------------------------------------------
\* LLMService._truncate_keywords_to_query_limit, lines 466-499.

\* Variant of PopWhileTooLong that drops one trailing keyword only.
PopOnce(keywords, max_length) ==
    IF Len(keywords) > 0 /\ Len(Join(keywords)) > max_length
    THEN SubSeq(keywords, 1, Len(keywords) - 1)
    ELSE keywords

\* Lines 480-481: pop trailing keywords while the join is too long.
RECURSIVE PopWhileTooLong(_, _)
PopWhileTooLong(keywords, max_length) ==
    IF Len(keywords) > 0 /\ Len(Join(keywords)) > max_length
    THEN PopWhileTooLong(SubSeq(keywords, 1, Len(keywords) - 1), max_length)
    ELSE keywords

\* Lines 484-494: cut the last keyword when the join is still too long.
CutLast(truncated, max_length) ==
    IF Len(truncated) > 0 /\ Len(Join(truncated)) > max_length
    THEN LET n == Len(truncated)
             remaining_space ==
                 max_length - Len(Join(SubSeq(truncated, 1, n - 1))) - 1
         IN IF remaining_space > 0
            THEN [truncated EXCEPT ![n] = Prefix(truncated[n], remaining_space)]
            ELSE SubSeq(truncated, 1, n - 1)
    ELSE truncated

TruncateKeywords(keywords, max_length) ==
    IF Len(keywords) = 0 THEN keywords
    ELSE IF Len(Join(keywords)) <= max_length THEN keywords
    ELSE CutLast(PopWhileTooLong(keywords, max_length), max_length)

----------------------------------------------------------------------------
\* The analysis capability (OpenAI chat completions) as seen by
\* LLMService.generate_search_keywords.

\* Words the analysis capability puts into a keyword list.
KeywordWords == {EmptyStr, <<" ">>, <<"W", "i", "t">>}

RECURSIVE SeqsUpTo(_, _)
SeqsUpTo(S, n) ==
    IF n = 0 THEN {<<>>}
    ELSE LET shorter == SeqsUpTo(S, n - 1)
         IN shorter \cup {Append(q, x) : q \in shorter, x \in S}

KeywordLists == SeqsUpTo(KeywordWords, MaxKeywords)

\* Answers to the function-calling request of line 149: an error, an answer
\* without the function call or with arguments that do not parse ("fail":
\* lines 163 and 172 both lead to the fallback), or a keyword list.
FunctionCallAnswers ==
    {[kind |-> "fail", keywords |-> <<>>]}
        \cup {[kind |-> "call", keywords |-> k] : k \in KeywordLists}

\* Answers to the free-text request of line 177: an error, text that holds
\* no JSON ("garbage"), or text whose JSON carries a keyword list.
FreeTextAnswers ==
    {[kind |-> "raise", keywords |-> <<>>], [kind |-> "garbage", keywords |-> <<>>]}
        \cup {[kind |-> "json", keywords |-> k] : k \in KeywordLists}

\* _extract_keywords, lines 320-364: strip and lowercase, drop blank
\* entries, keep five; unparsable content gives the empty list.
CleanKeywords(keywords) ==
    LET kept == NonBlank(keywords)
    IN Prefix([i \in 1..Len(kept) |-> Lower(Strip(kept[i]))], KEYWORD_LIMIT)

ExtractKeywords(content) ==
    IF content.kind = "json" THEN CleanKeywords(content.keywords) ELSE <<>>

----------------------------------------------------------------------------
\* The feature search of the external service.

\* What features.search can return, in rank order.
SearchResultLists == {<<>>, <<"humor">>, <<"formality", "humor">>}
SearchAnswers == {[kind |-> "raise", features |-> <<>>]}
                     \cup {[kind |-> "ok", features |-> r] : r \in SearchResultLists}

Queries == {EmptyStr, <<" ">>, <<"w", "i", "t">>}

\* The validations without the upper limit of line 337.
SearchRequestValidNoCap(variant_id, query, top_k) ==
    /\ variant_id = DEMO_VARIANT_ID
    /\ Strip(query) # EmptyStr
    /\ top_k > 0

\* search_features, lines 326-338: the validations before the external call.
SearchRequestValid(variant_id, query, top_k) ==
    /\ variant_id = DEMO_VARIANT_ID
    /\ Strip(query) # EmptyStr
    /\ top_k > 0
    /\ top_k <= SEARCH_TOP_K_MAX

SearchStart(t, variant_id, query, top_k) ==
    /\ CanStart(t)
    /\ LET req == Request("search", variant_id)
       IN task' = [task EXCEPT ![t] =
              IF SearchRequestValid(variant_id, query, top_k)
              THEN [req EXCEPT !.pc = "search", !.query = query, !.topk = top_k]
              ELSE Failed(req, "e400")]
    /\ UNCHANGED <<ledger, history>>

\* Lines 346-375: the external search answers; an error becomes ValueError.
SearchFinish(t) ==
    /\ task[t].pc = "search"
    /\ task[t].op = "search"
    /\ \E answer \in SearchAnswers :
         task' = [task EXCEPT ![t] =
             IF answer.kind = "raise"
             THEN Failed(task[t], "e400")
             ELSE Respond([task[t] EXCEPT !.nfound = Len(answer.features)],
                          "ok", TRUE, 0, <<>>, answer.features)]
    /\ UNCHANGED <<ledger, history>>

----------------------------------------------------------------------------
\* auto_steer (router lines 284-310, service lines 396-524).
\*
\* generate_search_keywords returns one list of keywords, while line 421
\* unpacks its result into (keywords, persona): the unpacking succeeds only
\* for a list of two, and then `keywords` is the first keyword, a str.
\* Every exception below the try of line 402 reaches line 524 and leaves the
\* router as a server error.

\* Lines 421-445 once generate_search_keywords has returned `returned`: the
\* task either ends here or waits for the search of line 441.
AfterKeywords(old, returned) ==
    LET run == [old EXCEPT !.nkw = Len(returned)]
    IN IF Len(returned) # 2
       THEN Failed(run, "e500")
       ELSE LET keywords == returned[1]
                combined_query == Join(CharsOf(keywords))
            IN IF keywords = EmptyStr
               THEN Respond(run, "ok", FALSE, 0, <<>>, <<>>)
               ELSE IF ~SearchRequestValid(run.cvid, combined_query,
                                           AUTO_STEER_TOP_K)
               THEN Failed(run, "e500")
               ELSE [run EXCEPT !.pc = "search", !.query = combined_query,
                                !.topk = AUTO_STEER_TOP_K,
                                !.truncated_keywords = returned]

\* Router line 286 and service line 399, then the first request to the
\* analysis capability is awaited.  The construction of LLMService at
\* line 404 is taken to succeed (an API key is configured).
AutoSteerStart(t, path_variant_id, current_variant_id) ==
    /\ CanStart(t)
    /\ LET req == [Request("auto", path_variant_id)
                       EXCEPT !.cvid = current_variant_id]
       IN task' = [task EXCEPT ![t] =
              IF path_variant_id # current_variant_id
              THEN Failed(req, "e500")
              ELSE IF current_variant_id # DEMO_VARIANT_ID
              THEN Failed(req, "e400")
              ELSE [req EXCEPT !.pc = "keywords"]]
    /\ UNCHANGED <<ledger, history>>

\* llm_service lines 149-173: the function-calling answer arrives.
AutoSteerKeywords(t) ==
    /\ task[t].pc = "keywords"
    /\ \E answer \in FunctionCallAnswers :
         task' = [task EXCEPT ![t] =
             IF answer.kind = "fail"
             THEN [task[t] EXCEPT !.pc = "fallback"]
             ELSE AfterKeywords(task[t],
                      TruncateKeywords(answer.keywords, QUERY_LIMIT))]
    /\ UNCHANGED <<ledger, history>>

\* llm_service lines 177-199: the free-text answer arrives.
AutoSteerFallback(t) ==
    /\ task[t].pc = "fallback"
    /\ \E answer \in FreeTextAnswers :
         task' = [task EXCEPT ![t] =
             IF answer.kind = "raise"
             THEN Failed(task[t], "e500")
             ELSE AfterKeywords(task[t],
                      TruncateKeywords(ExtractKeywords(answer), QUERY_LIMIT))]
    /\ UNCHANGED <<ledger, history>>

\* Variant of AutoSteerSearched that commits the configuration's pending
\* edits at the end of the run.
AutoSteerSearchedCommitting(t) ==
    /\ task[t].pc = "search"
    /\ task[t].op = "auto"
    /\ \E answer \in SearchAnswers :
         task' = [task EXCEPT ![t] =
             Failed([task[t] EXCEPT !.nfound =
                         IF answer.kind = "raise" THEN -1
                         ELSE Len(answer.features)],
                    "e500")]
    /\ modified' = CommitChanges(modified, pending, task[t].cvid).m
    /\ pending' = CommitChanges(modified, pending, task[t].cvid).p
    /\ UNCHANGED history

\* Lines 441-470 once the search has answered: a failed search raises, an
\* empty result builds AutoSteerResponse(search_keywords=<a str>), which the
\* schema rejects, and a non-empty result calls select_features_to_modify
\* with a persona argument the method does not take.
AutoSteerSearched(t) ==
    /\ task[t].pc = "search"
    /\ task[t].op = "auto"
    /\ \E answer \in SearchAnswers :
         task' = [task EXCEPT ![t] =
             Failed([task[t] EXCEPT !.nfound =
                         IF answer.kind = "raise" THEN -1
                         ELSE Len(answer.features)],
                    "e500")]
    /\ UNCHANGED <<ledger, history>>

----------------------------------------------------------------------------
Next ==
    \/ /\ \E t \in Tasks, v \in VariantIds, f \in FeatureIds, s \in Strengths :
              SteerStart(t, v, f, s)
       /\ UNCHANGED outside_ledger
    \/ /\ \E t \in Tasks : SteerFinish(t)
       /\ UNCHANGED outside_ledger
    \/ /\ \E t \in Tasks, v \in VariantIds : Commit(t, v)
       /\ UNCHANGED outside_ledger
    \/ /\ \E t \in Tasks, v \in VariantIds : Reject(t, v)
       /\ UNCHANGED outside_ledger
    \/ /\ \E t \in Tasks, v \in VariantIds, q \in Queries, k \in TopKs :
              SearchStart(t, v, q, k)
       /\ UNCHANGED outside_ledger
    \/ /\ \E t \in Tasks : SearchFinish(t)
       /\ UNCHANGED outside_ledger
    \/ /\ \E t \in Tasks, pv \in VariantIds, v \in VariantIds :
              AutoSteerStart(t, pv, v)
       /\ UNCHANGED outside_ledger
    \/ /\ \E t \in Tasks : AutoSteerKeywords(t)
       /\ UNCHANGED outside_ledger
    \/ /\ \E t \in Tasks : AutoSteerFallback(t)
       /\ UNCHANGED outside_ledger
    \/ /\ \E t \in Tasks : AutoSteerSearched(t)
       /\ UNCHANGED outside_ledger
    \/ /\ \E t \in Tasks : Deliver(t)
       /\ UNCHANGED outside_ledger

Spec == Init /\ [][Next]_vars

----------------------------------------------------------------------------
\* Two clients of the variant router at the same time: steer requests that
\* overlap at the await of line 101, with commits and rejects between them.
RaceTasks == {1, 2}

RaceInit ==
    /\ conversation_messages = EmptyDict
    /\ conversation_activated_features = EmptyDict
    /\ conv = IdleConv
    /\ mgr = IdleMgr
    /\ raced = {}
    /\ requested = [t \in Tasks |-> <<>>]
    /\ variants = EmptyDict
    /\ objects = <<>>
    /\ comp = IdleComp
    /\ modified = EmptyDict
    /\ pending = EmptyDict
    /\ task = [t \in RaceTasks |-> IdleTask]
    /\ lastOp = Op("none")
    /\ proposed = EmptyDict
    /\ call = IdleCall

\* Strengths of the racing requests: both ends of the range and zero.
RaceStrengths == {-STRENGTH_MAX, 0, STRENGTH_MAX}

\* The request task t starts overlaps a steer request suspended at its
\* lookup for the same variant and feature.
Overlaps(t, variant_id, feature_uuid) ==
    /\ task'[t].pc = "lookup"
    /\ \E u \in RaceTasks \ {t} :
           /\ task[u].op = "steer"
           /\ task[u].pc = "lookup"
           /\ task[u].vid = variant_id
           /\ task[u].fid = feature_uuid

RaceNext ==
    \/ /\ \E t \in RaceTasks, f \in FeatureIds, s \in RaceStrengths :
              /\ SteerStart(t, DEMO_VARIANT_ID, f, s)
              /\ raced' = IF Overlaps(t, DEMO_VARIANT_ID, f)
                          THEN raced \cup {t} ELSE raced
       /\ UNCHANGED <<call, completion, conversation, mgr, requested>>
    \/ /\ \E t \in RaceTasks : SteerFinish(t)
       /\ UNCHANGED outside_ledger
    \/ /\ \E t \in RaceTasks : Commit(t, DEMO_VARIANT_ID)
       /\ UNCHANGED outside_ledger
    \/ /\ \E t \in RaceTasks : Reject(t, DEMO_VARIANT_ID)
       /\ UNCHANGED outside_ledger
    \/ /\ \E t \in RaceTasks : Deliver(t) /\ raced' = raced \ {t}
       /\ UNCHANGED <<call, completion, conversation, mgr, requested>>

RaceSpec == RaceInit /\ [][RaceNext]_vars

----------------------------------------------------------------------------
\* One client of the variant router, with the parameters of its search
\* request kept until the response is delivered.
SearchTasks == {1}

SearchNext ==
    \/ /\ \E t \in SearchTasks, v \in VariantIds, q \in Queries,
             k \in SearchTopKs :
              /\ SearchStart(t, v, q, k)
              /\ requested' = [requested EXCEPT ![t] =
                     <<[variant_id |-> v, query |-> q, top_k |-> k]>>]
       /\ UNCHANGED <<call, completion, conversation, mgr, raced>>
    \/ /\ \E t \in SearchTasks : SearchFinish(t)
       /\ UNCHANGED outside_ledger
    \/ /\ \E t \in SearchTasks, f \in FeatureIds, s \in Strengths :
              SteerStart(t, DEMO_VARIANT_ID, f, s)
       /\ UNCHANGED outside_ledger
    \/ /\ \E t \in SearchTasks : SteerFinish(t)
       /\ UNCHANGED outside_ledger
    \/ /\ \E t \in SearchTasks : Commit(t, DEMO_VARIANT_ID)
       /\ UNCHANGED outside_ledger
    \/ /\ \E t \in SearchTasks, pv \in VariantIds, v \in VariantIds :
              AutoSteerStart(t, pv, v)
       /\ UNCHANGED outside_ledger
    \/ /\ \E t \in SearchTasks : AutoSteerKeywords(t)
       /\ UNCHANGED outside_ledger
    \/ /\ \E t \in SearchTasks : AutoSteerFallback(t)
       /\ UNCHANGED outside_ledger
    \/ /\ \E t \in SearchTasks : AutoSteerSearched(t)
       /\ UNCHANGED outside_ledger
    \/ /\ \E t \in SearchTasks : /\ Deliver(t)
                                 /\ requested' = [requested EXCEPT ![t] = <<>>]
       /\ UNCHANGED <<call, completion, conversation, mgr, raced>>

SearchSpec == Init /\ [][SearchNext]_<<vars, outside_ledger>>

----------------------------------------------------------------------------
\* LLMService methods called on their own (backend/services/llm_service.py):
\* the keyword-length guard and select_features_to_modify.  In auto_steer
\* the guard runs inside generate_search_keywords, and the call of
\* select_features_to_modify at variant_service line 457 passes an argument
\* the method does not take, so no run of Spec gets into the method.

allvars == <<vars, outside_ledger>>

\* The caller has the result; the next call can start.
CallReturn ==
    /\ call.pc = "done"
    /\ call' = IdleCall

\* A keyword of n characters.
Word(n) == [i \in 1..n |-> "a"]

\* Keywords around the limit of 100 characters: two of 50 join to 101.
GuardWords == {Word(0), Word(1), Word(49), Word(50), Word(QUERY_LIMIT + 1)}
GuardKeywordLists == SeqsUpTo(GuardWords, MaxGuardKeywords)

\* _truncate_keywords_to_query_limit(keywords), max_length left at its
\* default as at lines 169 and 194.
TruncateCall(keywords) ==
    /\ call.pc = "idle"
    /\ call' = [IdleCall EXCEPT !.pc = "done", !.fn = "truncate",
                                !.keywords = keywords,
                                !.result = TruncateKeywords(keywords, QUERY_LIMIT)]

----------------------------------------------------------------------------
\* More str operations, for _find_feature_uuid_by_label.

\* b in a
Contains(a, b) ==
    \E i \in 0..(Len(a) - Len(b)) : SubSeq(a, i + 1, i + Len(b)) = b

\* The places of the words of s: the maximal runs without a space.
WordSpans(s) ==
    {p \in (1..Len(s)) \X (1..Len(s)) :
        /\ p[1] <= p[2]
        /\ \A k \in p[1]..p[2] : s[k] # " "
        /\ (p[1] = 1 \/ s[p[1] - 1] = " ")
        /\ (p[2] = Len(s) \/ s[p[2] + 1] = " ")}

\* set(s.split())
Words(s) == {SubSeq(s, p[1], p[2]) : p \in WordSpans(s)}

----------------------------------------------------------------------------
\* LLMService.select_features_to_modify, lines 221-318.
\*
\* A Dict[str, float] that is built entry by entry keeps the order of
\* insertion: it is a sequence of entries [k, v] with distinct keys.
\* Selection values are in tenths, like strengths.

\* d[k] = v
RECURSIVE OrdSet(_, _, _)
OrdSet(d, k, v) ==
    IF Len(d) = 0 THEN <<[k |-> k, v |-> v]>>
    ELSE IF d[1].k = k THEN <<[k |-> k, v |-> v]>> \o Tail(d)
    ELSE <<d[1]>> \o OrdSet(Tail(d), k, v)

\* The features of a search response: uuid and label.
FeatureLabel(uuid) ==
    CASE uuid = "humor" -> <<"W", "i", "t">>
      [] uuid = "formality" -> <<"d", "r", "y", " ", "t", "o", "n", "e">>
      [] OTHER -> <<"w", "a", "r", "m">>

SearchedFeature(uuid) == [uuid |-> uuid, label |-> FeatureLabel(uuid)]

SelectSearchResults ==
    {<<>>,
     <<SearchedFeature("humor")>>,
     <<SearchedFeature("humor"), SearchedFeature("formality"),
       SearchedFeature("warmth")>>}

\* The value a JSON answer gives a selection: null (or absent), a number,
\* or text that float() does not take.
JsonNull == [kind |-> "null", num |-> 0]
JsonText == [kind |-> "text", num |-> 0]
JsonNum(n) == [kind |-> "num", num |-> n]

\* 0.4, 0.5 (within 0.6, but no multiple of 0.2) and 0.7 (beyond 0.6).
SelectionValues == {JsonNull, JsonText, JsonNum(4), JsonNum(5), JsonNum(7)}

\* Answers to the function-calling request of line 263: an error or an
\* answer without the function call or with arguments that do not parse
\* ("fail"), or a list of selections by uuid.  The schema of lines 48-83 is
\* sent with the request; nothing checks the answer against it.
SelectionUuids == {"", "humor", "formality", "warmth"}
UuidSelections ==
    {[feature_uuid |-> u, modification_value |-> v] :
        u \in SelectionUuids, v \in SelectionValues}
SelectCallAnswers ==
    {[kind |-> "fail", selections |-> <<>>]}
        \cup {[kind |-> "call", selections |-> l] :
                 l \in SeqsUpTo(UuidSelections, MaxSelections)}

\* Lines 283-288.  float() of a value it does not take raises, which ends
\* the function-calling path (line 293).
CallSelectionsRaise(selections_data) ==
    \E i \in 1..Len(selections_data) :
        /\ selections_data[i].feature_uuid # ""
        /\ selections_data[i].modification_value = JsonText

RECURSIVE CallSelections(_, _)
CallSelections(selections, selections_data) ==
    IF Len(selections_data) = 0 THEN selections
    ELSE LET selection == selections_data[1]
             feature_uuid == selection.feature_uuid
             modification_value == selection.modification_value
         IN CallSelections(
                IF feature_uuid # "" /\ modification_value # JsonNull
                THEN OrdSet(selections, feature_uuid, modification_value.num)
                ELSE selections,
                Tail(selections_data))

\* Answers to the free-text request of line 298: an error, text that holds
\* no JSON ("garbage"), text that is JSON ("json"), or JSON inside other
\* text ("embedded"), with a list of selections by label.
SelectionLabels ==
    {EmptyStr, <<" ", "W", "i", "t", " ">>, <<"t", "o", "n", "e">>,
     <<"t", "o", "n", "e", " ", "d", "r", "y">>, <<"w", "a", "r", "m">>,
     <<"z">>}
LabelSelections ==
    {[label |-> l, value |-> v] : l \in SelectionLabels, v \in SelectionValues}
SelectTextAnswers ==
    {[kind |-> "raise", selections |-> <<>>],
     [kind |-> "garbage", selections |-> <<>>]}
        \cup {[kind |-> k, selections |-> l] :
                 k \in {"json", "embedded"},
                 l \in SeqsUpTo(LabelSelections, MaxSelections)}

\* The first feature of search_results that P holds for, as <<index>>.
FirstWhere(search_results, P(_)) ==
    LET hits == {i \in 1..Len(search_results) : P(search_results[i])}
    IN IF hits = {} THEN None
       ELSE <<CHOOSE i \in hits : \A j \in hits : i <= j>>

\* Variant of _find_feature_uuid_by_label with one loop: the first feature
\* that matches in any of the three ways.
FindFeatureUuidInOnePass(label, search_results) ==
    LET label_lower == Strip(Lower(label))
        label_words == Words(label_lower)
        Matches(feature) ==
            \/ Strip(Lower(feature.label)) = label_lower
            \/ Contains(Lower(feature.label), label_lower)
            \/ Contains(label_lower, Lower(feature.label))
            \/ LET common ==
                       Cardinality(label_words \cap Words(Lower(feature.label)))
               IN common >= 1 /\ 2 * common >= Cardinality(label_words)
        hits == {i \in 1..Len(search_results) : Matches(search_results[i])}
    IN IF hits = {} THEN None
       ELSE <<search_results[CHOOSE i \in hits : \A j \in hits : i <= j].uuid>>

\* _find_feature_uuid_by_label, lines 501-529: exact match, then one label
\* inside the other, then half of the words of the label.
FindFeatureUuidByLabel(label, search_results) ==
    LET label_lower == Strip(Lower(label))
        label_words == Words(label_lower)
        Exact(feature) == Strip(Lower(feature.label)) = label_lower
        Partial(feature) ==
            \/ Contains(Lower(feature.label), label_lower)
            \/ Contains(label_lower, Lower(feature.label))
        ByWords(feature) ==
            LET common ==
                    Cardinality(label_words \cap Words(Lower(feature.label)))
            IN common >= 1 /\ 2 * common >= Cardinality(label_words)
        exact == FirstWhere(search_results, Exact)
        partial == FirstWhere(search_results, Partial)
        by_words == FirstWhere(search_results, ByWords)
        hit == IF exact # None THEN exact
               ELSE IF partial # None THEN partial ELSE by_words
    IN IF hit = None THEN None ELSE <<search_results[hit[1]].uuid>>


\* Lines 379-404, the loop over the selections of a JSON answer.
RECURSIVE LabelledSelections(_, _, _)
LabelledSelections(selections, selections_data, search_results) ==
    IF Len(selections_data) = 0 THEN selections
    ELSE LET selection == selections_data[1]
             label == Strip(selection.label)
             value == selection.value
             feature_uuid == FindFeatureUuidByLabel(label, search_results)
             taken ==
                 /\ label # EmptyStr
                 /\ value.kind = "num"
                 /\ -FALLBACK_VALUE_MAX <= value.num
                 /\ value.num <= FALLBACK_VALUE_MAX
                 /\ feature_uuid # None
         IN LabelledSelections(
                IF taken THEN OrdSet(selections, feature_uuid[1], value.num)
                ELSE selections,
                Tail(selections_data), search_results)

\* _extract_feature_selections, lines 366-453.  Text that is JSON goes
\* through the loop and keeps the first two entries (lines 409-412).  In
\* other text the pattern of line 424 matches from a "{" to the first "}"
\* after "selections": a list that holds an object is cut inside it and does
\* not parse (line 446), a list without objects selects nothing.
ExtractFeatureSelections(content, search_results) ==
    IF content.kind = "json"
    THEN Prefix(LabelledSelections(<<>>, content.selections, search_results),
                FALLBACK_LIMIT)
    ELSE <<>>

\* Lines 221-225: no search results, no request to the analysis capability.
SelectStart(search_results) ==
    /\ call.pc = "idle"
    /\ call' = IF search_results = <<>>
               THEN [IdleCall EXCEPT !.pc = "done", !.fn = "select"]
               ELSE [IdleCall EXCEPT !.pc = "function_call", !.fn = "select",
                                     !.search_results = search_results]

\* Lines 263-294: the function-calling answer arrives.
SelectFunctionCall ==
    /\ call.pc = "function_call"
    /\ \E answer \in SelectCallAnswers :
         call' = IF answer.kind = "fail" \/ CallSelectionsRaise(answer.selections)
                 THEN [call EXCEPT !.pc = "fallback"]
                 ELSE [call EXCEPT !.pc = "done", !.path = "function_call",
                                   !.result = CallSelections(<<>>, answer.selections)]

\* Lines 297-318: the free-text answer arrives.
SelectFallback ==
    /\ call.pc = "fallback"
    /\ \E answer \in SelectTextAnswers :
         call' = IF answer.kind = "raise"
                 THEN [call EXCEPT !.pc = "done", !.path = "fallback",
                                   !.raised = TRUE]
                 ELSE [call EXCEPT !.pc = "done", !.path = "fallback",
                                   !.result = ExtractFeatureSelections(
                                                  answer, call.search_results)]

\* Labels of features for _find_feature_uuid_by_label: words of one
\* character, so that every way of matching and every order of the ways
\* occurs among lists of MaxFindResults features.
FindFeature(uuid, label) == [uuid |-> uuid, label |-> label]
FindFeatures ==
    {FindFeature("f-w", <<"w">>),
     FindFeature("f-dw", <<"d", " ", "w">>),
     FindFeature("f-wd", <<"W", " ", "d">>),
     FindFeature("f-tz", <<"t", " ", "z">>),
     FindFeature("f-dwt", <<" ", "d", " ", "w", " ", "t">>)}
MaxFindResults == 2
FindSearchResults == SeqsUpTo(FindFeatures, MaxFindResults)

\* Labels a selection names: empty, with capitals and spaces around, one to
\* three words, and one that matches nothing.
FindLabels ==
    {EmptyStr, <<" ", "W", " ">>, <<"d">>, <<"d", " ", "w">>,
     <<"w", " ", "d">>, <<"w", " ", "d", " ", "t">>,
     <<"q", " ", "r", " ", "t">>, <<"q">>}

\* _find_feature_uuid_by_label(label, search_results)
FindCall(label, search_results) ==
    /\ call.pc = "idle"
    /\ call' = [IdleCall EXCEPT
                  !.pc = "done", !.fn = "find", !.label = label,
                  !.search_results = search_results,
                  !.result = FindFeatureUuidByLabel(label, search_results)]

AnalysisNext ==
    \/ /\ \E keywords \in GuardKeywordLists : TruncateCall(keywords)
       /\ UNCHANGED <<vars, completion, conversation, mgr, raced, requested>>
    \/ /\ \E label \in FindLabels, search_results \in FindSearchResults :
              FindCall(label, search_results)
       /\ UNCHANGED <<vars, completion, conversation, mgr, raced, requested>>
    \/ /\ \E search_results \in SelectSearchResults : SelectStart(search_results)
       /\ UNCHANGED <<vars, completion, conversation, mgr, raced, requested>>
    \/ /\ SelectFunctionCall
       /\ UNCHANGED <<vars, completion, conversation, mgr, raced, requested>>
    \/ /\ SelectFallback
       /\ UNCHANGED <<vars, completion, conversation, mgr, raced, requested>>
    \/ /\ CallReturn
       /\ UNCHANGED <<vars, completion, conversation, mgr, raced, requested>>

AnalysisSpec == Init /\ [][AnalysisNext]_allvars

----------------------------------------------------------------------------
\* The completion service with its collaborators
\* (backend/src/core/services: completion_service.py, analysis_service.py,
\* feature_service.py, variant_manager.py).  CompletionService is taken as
\* constructed with an AnalysisService and a FeatureService that share its
\* VariantManager, and create_chat_completion as called with the parameters
\* of its signature.  One request is in flight at a time.
\*
\* A goodfire Variant is an object: VariantManager stores references, and
\* every service that looks a variant up gets the stored object itself.

\* variant_id or "default"
OrDefault(variant_id) ==
    IF variant_id = NoVariantId THEN "default" ELSE variant_id

\* Settings.default_model
DEFAULT_MODEL == "meta-llama/Llama-3.3-70B-Instruct"

\* goodfire.Variant(base_model): a new object without edits.
Variant(base_model) == [base_model |-> base_model, edits |-> EmptyDict]

\* Variant of get_default_variant that makes a new default Variant on
\* every call.
GetDefaultVariantAlwaysNew(vs, objs, session_id) ==
    LET vs1 == IF session_id \in DOMAIN vs THEN vs
               ELSE DictSet(vs, session_id, EmptyDict)
        objs1 == Append(objs, Variant(DEFAULT_MODEL))
        vs2 == DictSet(vs1, session_id,
                       DictSet(vs1[session_id], "default", Len(objs1)))
    IN [variants |-> vs2, objects |-> objs1,
        variant |-> vs2[session_id]["default"]]

\* VariantManager.get_default_variant, lines 32-42.
GetDefaultVariant(vs, objs, session_id) ==
    LET vs1 == IF session_id \in DOMAIN vs THEN vs
               ELSE DictSet(vs, session_id, EmptyDict)
        stored == "default" \in DOMAIN vs1[session_id]
        objs1 == IF stored THEN objs ELSE Append(objs, Variant(DEFAULT_MODEL))
        vs2 == IF stored THEN vs1
               ELSE DictSet(vs1, session_id,
                            DictSet(vs1[session_id], "default", Len(objs1)))
    IN [variants |-> vs2, objects |-> objs1,
        variant |-> vs2[session_id]["default"]]

\* VariantManager.get_variant, lines 96-130: the stored object, or else the
\* session's default object, which is then stored under the id as well.
GetVariant(vs, objs, session_id, variant_id) ==
    LET id == OrDefault(variant_id)
    IN IF session_id \in DOMAIN vs /\ id \in DOMAIN vs[session_id]
       THEN [variants |-> vs, objects |-> objs, variant |-> vs[session_id][id]]
       ELSE LET d == GetDefaultVariant(vs, objs, session_id)
            IN [variants |->
                    DictSet(d.variants, session_id,
                            DictSet(d.variants[session_id], id, d.variant)),
                objects |-> d.objects, variant |-> d.variant]

\* variant.set(feature, value)
VariantSet(objs, variant, feature, value) ==
    [objs EXCEPT ![variant].edits = DictSet(@, feature, value)]

\* The arguments of a request.
SessionIds == {"s1"}
VariantArgs == {NoVariantId, "v1"}
Labels == {"humor", "formality"}

\* What the upstream generation returns without streaming: the content of
\* the first choice ("" when there is no choice), or an error.
Texts == {EmptyStr, <<"a">>}
GenerationAnswers ==
    {[kind |-> "raise", content |-> EmptyStr]}
        \cup {[kind |-> "ok", content |-> x] : x \in Texts}

\* The content of one chunk of an upstream stream: "" for a chunk without
\* choices or without delta content.
Deltas == {EmptyStr, <<"a">>}

\* What analyze_query gets from the analysis capability: an error (also a
\* JSON answer of another shape), or the features of the three categories
\* in the order of line 188.  An importance of 4 steers by 0.4.  What a
\* search for the label finds is up to the upstream service.
AnalysisFeatures ==
    {[label |-> "humor", importance |-> 2],
     [label |-> "formality", importance |-> 4]}
AnalysisAnswers ==
    {[kind |-> "raise", features |-> <<>>]}
        \cup {[kind |-> "ok", features |-> f] :
                 f \in SeqsUpTo(AnalysisFeatures, MaxAnalysisFeatures)}

\* What client.features.search returns: an error, nothing, or a list whose
\* first entry has the given label.
FeatureSearchAnswers ==
    {[kind |-> "raise", features |-> <<>>], [kind |-> "ok", features |-> <<>>]}
        \cup {[kind |-> "ok", features |-> <<l>>] : l \in Labels}

\* History: the request enters a stage (consecutive steps of one stage
\* count once).
Entered(c, stage) ==
    IF Len(c.stages) > 0 /\ c.stages[Len(c.stages)] = stage THEN c
    ELSE [c EXCEPT !.stages = Append(@, stage)]

\* client.chat.completions.create(model=variant, stream=...) is sent: the
\* upstream service gets the edits the Variant object carries now.
SendGeneration(c, objs, text, streamed) ==
    [c EXCEPT !.generations =
        Append(@, [text |-> text, stream |-> streamed, variant |-> c.variant,
                   edits |-> objs[c.variant].edits])]

\* A get_variant call with the request's ids.
Looked(c) ==
    [c EXCEPT !.lookups =
        Append(@, [session_id |-> c.session_id, variant_id |-> c.variant_id])]

\* AutoSteerResult(original_content, steered_content, applied_features)
AutoSteerResult(c) ==
    [original_content |-> c.original_content,
     steered_content |-> c.steered_content,
     applied_features |-> c.steered_features]

\* _create_regular_completion, lines 184-201: return ChatResponse(...);
\* auto_steer_result is None or <<AutoSteerResult>>.
Return(c, auto_steer_result) ==
    [Entered(c, "DONE") EXCEPT
        !.pc = "done",
        !.response = [kind |-> "response", content |-> c.original_content,
                      variant_id |-> OrDefault(c.variant_id),
                      auto_steered |-> (c.auto_steer /\ auto_steer_result # None),
                      auto_steer_result |-> auto_steer_result]]

\* _create_regular_completion, lines 203-210: the exception leaves the call.
Raise(c) ==
    [Entered(c, "ERROR") EXCEPT
        !.pc = "done", !.failed = TRUE,
        !.response = [NoResponse EXCEPT !.kind = "raised"]]

\* A ChatStreamChunk.  source is history, not part of the event: the stream
\* the chunk came from.  A field the code leaves out is None (EmptyStr for
\* delta).
StreamEvent(c, type, delta, auto_steer_result) ==
    [type |-> type, delta |-> delta, variant_id |-> OrDefault(c.variant_id),
     auto_steered |-> IF auto_steer_result = None THEN None ELSE <<TRUE>>,
     auto_steer_result |-> auto_steer_result,
     source |-> IF type = "chunk" THEN c.source ELSE "none"]

Emit(c, event) == [c EXCEPT !.events = Append(@, event)]

\* yield ChatStreamChunk(type="done", ...), lines 311-314 and 440-445; the
\* generator ends.
StreamDone(c, auto_steer_result) ==
    [Entered(Emit(c, StreamEvent(c, "done", EmptyStr, auto_steer_result)), "DONE")
        EXCEPT !.pc = "done"]

\* Variant of StreamError that goes on to the completion signal after the
\* error chunk.
StreamErrorThenDone(c) ==
    [Entered(Emit(Emit(c, StreamEvent(c, "error", EmptyStr, None)),
                  StreamEvent(c, "done", EmptyStr, None)), "ERROR")
        EXCEPT !.pc = "done", !.failed = TRUE]

\* The except clauses of lines 259-271, 316-322 and 454-464: one error
\* chunk; the generator ends.
StreamError(c) ==
    [Entered(Emit(c, StreamEvent(c, "error", EmptyStr, None)), "ERROR")
        EXCEPT !.pc = "done", !.failed = TRUE]

\* The upstream stream of `text` ("regular", "original" or "steered") is
\* requested.
OpenStream(c, objs, source) ==
    [SendGeneration(
         Entered(c, IF source = "steered" THEN "GENERATE_STEERED"
                    ELSE "GENERATE_BASELINE"),
         objs, IF source = "steered" THEN "steered" ELSE "baseline", TRUE)
        EXCEPT !.pc = "open", !.source = source, !.chunks = 0]

\* Variant of WantsAutoSteer that does not look at the request's flag.
WantsAutoSteerAnyway(auto_steer, last_is_user) == last_is_user

\* Lines 111 and 243: auto_steer and messages and messages[-1].role == "user"
WantsAutoSteer(auto_steer, last_is_user) == auto_steer /\ last_is_user

\* analysis_service.analyze_query is called (lines 121 and 344).
Analyze(c) ==
    [Entered(c, "ANALYZE") EXCEPT !.pc = "analyze", !.analysis_calls = @ + 1]

\* After analysis_service.auto_steer returned steered_features: lines
\* 146-158 without streaming, lines 368-387 with streaming.
AfterAutoSteer(c, objs) ==
    LET c1 == [c EXCEPT !.all_features = <<>>, !.index = 0,
                        !.best_match = NoId, !.target = 0]
    IN IF ~c.stream
       THEN IF c1.steered_features = <<>> THEN Return(c1, None)
            ELSE [SendGeneration(Entered(c1, "GENERATE_STEERED"), objs,
                                 "steered", FALSE)
                     EXCEPT !.pc = "steered"]
       ELSE IF c1.steered_features = <<>> THEN OpenStream(c1, objs, "regular")
            ELSE OpenStream(c1, objs, "original")

\* AnalysisService.auto_steer, lines 195-205: the loop takes the feature at
\* c.index and calls search_features (which looks the variant up, line 112
\* of feature_service.py), or the loop is over.
NextFeature(c, vs, objs) ==
    IF c.index <= Len(c.all_features)
    THEN LET got == GetVariant(vs, objs, c.session_id, c.variant_id)
         IN [comp |-> [Looked(Entered(c, "SELECT")) EXCEPT
                          !.pc = "apply_search", !.search_calls = @ + 1],
             variants |-> got.variants, objects |-> got.objects]
    ELSE [comp |-> AfterAutoSteer(c, objs), variants |-> vs, objects |-> objs]

\* Variant of AddDelta that keeps the last delta only.
LastDelta(content, delta) == delta

\* original_content += delta_content (lines 396 and 423)
AddDelta(content, delta) == content \o delta

\* create_chat_completion, lines 44-65, up to the first upstream call of
\* _create_regular_completion (line 98) or _create_streaming_completion
\* (lines 232-257, 285, 344).
CompleteStart(stream, auto_steer, session_id, variant_id, last_is_user) ==
    /\ comp.pc = "idle"
    /\ LET got == GetVariant(variants, objects, session_id, variant_id)
           c0 == Looked([IdleComp EXCEPT
                            !.stream = stream, !.auto_steer = auto_steer,
                            !.session_id = session_id,
                            !.variant_id = variant_id,
                            !.last_is_user = last_is_user,
                            !.variant = got.variant,
                            !.stages = <<"INIT">>,
                            !.edits_before = got.objects[got.variant].edits])
       IN /\ variants' = got.variants
          /\ objects' = got.objects
          /\ comp' =
                IF ~stream
                THEN [SendGeneration(Entered(c0, "GENERATE_BASELINE"),
                                     got.objects, "baseline", FALSE)
                         EXCEPT !.pc = "original"]
                ELSE IF WantsAutoSteer(auto_steer, last_is_user)
                     THEN Analyze(c0)
                     ELSE OpenStream(c0, got.objects, "regular")

\* _create_regular_completion, lines 98-111: the original response arrives
\* or the call raises.
OriginalAnswer(answer) ==
    /\ comp.pc = "original"
    /\ comp' =
          IF answer.kind = "raise"
          THEN Raise([comp EXCEPT !.generation_failed = TRUE])
          ELSE LET c1 == [comp EXCEPT !.original_content = answer.content]
               IN IF WantsAutoSteer(c1.auto_steer, c1.last_is_user)
                  THEN Analyze(c1)
                  ELSE Return(c1, None)
    /\ UNCHANGED <<variants, objects>>

\* analyze_query returns or raises: lines 121-129 and 175-182 without
\* streaming, lines 344-352 and 454-464 with streaming.
Analyzed(answer) ==
    /\ comp.pc = "analyze"
    /\ IF answer.kind = "raise"
       THEN /\ comp' =
                  LET c1 == [comp EXCEPT !.pipeline_failed = TRUE]
                  IN IF comp.stream THEN StreamError(c1)
                     ELSE Return([c1 EXCEPT !.failed = TRUE], None)
            /\ UNCHANGED <<variants, objects>>
       ELSE LET n == NextFeature([comp EXCEPT !.all_features = answer.features,
                                              !.index = 1],
                                 variants, objects)
            IN /\ comp' = n.comp
               /\ variants' = n.variants
               /\ objects' = n.objects

\* AnalysisService.auto_steer, lines 200-224: search_features returns or
\* raises; on a match steer_feature is called with the label of the best
\* match, and looks the variant up and searches (feature_service.py, lines
\* 166-173).
ApplySearched(answer) ==
    /\ comp.pc = "apply_search"
    /\ IF answer.kind = "raise" \/ answer.features = <<>>
       THEN LET n == NextFeature(
                         [comp EXCEPT !.index = @ + 1,
                                      !.pipeline_failed =
                                          @ \/ answer.kind = "raise"],
                         variants, objects)
            IN /\ comp' = n.comp
               /\ variants' = n.variants
               /\ objects' = n.objects
       ELSE LET got == GetVariant(variants, objects, comp.session_id,
                                  comp.variant_id)
            IN /\ comp' = [Looked(Entered(comp, "APPLY")) EXCEPT
                              !.pc = "apply_steer",
                              !.best_match = answer.features[1],
                              !.target = got.variant,
                              !.search_calls = @ + 1]
               /\ variants' = got.variants
               /\ objects' = got.objects

\* FeatureService.steer_feature, lines 169-200, and the rest of the loop
\* body (analysis_service.py, lines 225-234): the search returns or
\* raises; a match is set on the variant to importance / 10.0.
ApplySteered(answer) ==
    /\ comp.pc = "apply_steer"
    /\ LET value == comp.all_features[comp.index].importance
           hit == answer.kind = "ok" /\ answer.features # <<>>
           objs == IF hit
                   THEN VariantSet(objects, comp.target, answer.features[1],
                                   value)
                   ELSE objects
           c1 == IF hit
                 THEN [comp EXCEPT
                          !.steered_features =
                              Append(@, [label |-> comp.best_match,
                                         activation |-> value,
                                         modified_value |-> value]),
                          !.applied =
                              Append(@, [feature |-> answer.features[1],
                                         value |-> value])]
                 ELSE [comp EXCEPT !.pipeline_failed =
                                       @ \/ answer.kind = "raise"]
           n == NextFeature([c1 EXCEPT !.index = @ + 1], variants, objs)
       IN /\ comp' = n.comp
          /\ variants' = n.variants
          /\ objects' = n.objects

\* _create_regular_completion, lines 151-182: the steered response arrives,
\* or the call raises and the request goes on with the original response.
SteeredAnswer(answer) ==
    /\ comp.pc = "steered"
    /\ comp' =
          IF answer.kind = "raise"
          THEN Return([comp EXCEPT !.failed = TRUE,
                                   !.generation_failed = TRUE], None)
          ELSE LET c1 == [comp EXCEPT !.steered_content = answer.content]
               IN Return(c1, <<AutoSteerResult(c1)>>)
    /\ UNCHANGED <<variants, objects>>

\* The upstream call that opens a stream (lines 285, 380, 407) returns the
\* stream or raises.
StreamOpened(ok) ==
    /\ comp.pc = "open"
    /\ comp' = IF ok THEN [comp EXCEPT !.pc = "stream"]
               ELSE StreamError([comp EXCEPT !.generation_failed = TRUE])
    /\ UNCHANGED <<variants, objects>>

\* One chunk of the upstream stream: lines 295-308, 389-403, 416-430.
StreamChunk(delta) ==
    /\ comp.pc = "stream"
    /\ comp.chunks < MaxChunks
    /\ LET c1 == [comp EXCEPT
                     !.chunks = @ + 1,
                     !.original_content =
                         IF comp.source = "original" THEN AddDelta(@, delta)
                         ELSE @,
                     !.steered_content =
                         IF comp.source = "steered" THEN AddDelta(@, delta)
                         ELSE @]
       IN comp' = Emit(c1, StreamEvent(c1, "chunk", delta, None))
    /\ UNCHANGED <<variants, objects>>

\* The upstream stream is exhausted: lines 311-314, 405-414, 432-445.
StreamEnds ==
    /\ comp.pc = "stream"
    /\ comp' = CASE comp.source = "regular" -> StreamDone(comp, None)
                 [] comp.source = "original" ->
                        OpenStream(comp, objects, "steered")
                 [] comp.source = "steered" ->
                        StreamDone(comp, <<AutoSteerResult(comp)>>)
    /\ UNCHANGED <<variants, objects>>

\* The upstream stream raises while it is read.
StreamBreaks ==
    /\ comp.pc = "stream"
    /\ comp' = StreamError([comp EXCEPT !.generation_failed = TRUE])
    /\ UNCHANGED <<variants, objects>>

\* The caller has the response, the exception or the whole stream; the
\* service is ready for the next request.  The variants stay.
CompDeliver ==
    /\ comp.pc = "done"
    /\ comp' = IdleComp
    /\ UNCHANGED <<variants, objects>>

CompletionNext ==
    \/ /\ \E stream \in BOOLEAN, auto_steer \in BOOLEAN,
             session_id \in SessionIds, variant_id \in VariantArgs,
             last_is_user \in BOOLEAN :
             CompleteStart(stream, auto_steer, session_id, variant_id,
                           last_is_user)
       /\ UNCHANGED <<vars, call, conversation, mgr, raced, requested>>
    \/ /\ \E answer \in GenerationAnswers : OriginalAnswer(answer)
       /\ UNCHANGED <<vars, call, conversation, mgr, raced, requested>>
    \/ /\ \E answer \in AnalysisAnswers : Analyzed(answer)
       /\ UNCHANGED <<vars, call, conversation, mgr, raced, requested>>
    \/ /\ \E answer \in FeatureSearchAnswers : ApplySearched(answer)
       /\ UNCHANGED <<vars, call, conversation, mgr, raced, requested>>
    \/ /\ \E answer \in FeatureSearchAnswers : ApplySteered(answer)
       /\ UNCHANGED <<vars, call, conversation, mgr, raced, requested>>
    \/ /\ \E answer \in GenerationAnswers : SteeredAnswer(answer)
       /\ UNCHANGED <<vars, call, conversation, mgr, raced, requested>>
    \/ /\ \E ok \in BOOLEAN : StreamOpened(ok)
       /\ UNCHANGED <<vars, call, conversation, mgr, raced, requested>>
    \/ /\ \E delta \in Deltas : StreamChunk(delta)
       /\ UNCHANGED <<vars, call, conversation, mgr, raced, requested>>
    \/ /\ StreamEnds
       /\ UNCHANGED <<vars, call, conversation, mgr, raced, requested>>
    \/ /\ StreamBreaks
       /\ UNCHANGED <<vars, call, conversation, mgr, raced, requested>>
    \/ /\ CompDeliver
       /\ UNCHANGED <<vars, call, conversation, mgr, raced, requested>>

CompletionSpec == Init /\ [][CompletionNext]_allvars

----------------------------------------------------------------------------
\* ConversationService (backend/services/conversation_service.py) and
\* VariantService.build_ember_variant, next to one client of the variant
\* router that proposes, commits, rejects and searches.  A conversation
\* request runs from one await to the next without interruption; the
\* ledger can change while it is suspended.

DEMO_CONVERSATION_ID == "demo-conversation"
ConversationIds == {DEMO_CONVERSATION_ID, "other-conversation"}
ConversationTasks == {1}
ConversationStrengths == {0, STRENGTH_MAX}
ConversationQueries == {<<"w", "i", "t">>}

\* Variant of GetDict with the effect of d.setdefault(k, {}).
GetDictSetDefault(d, k) ==
    [value |-> DictGet(d, k, EmptyDict),
     after |-> IF k \in DOMAIN d THEN d ELSE DictSet(d, k, EmptyDict)]

\* d.get(k, {}): the value it returns and the dict after the call.
GetDict(d, k) == [value |-> DictGet(d, k, EmptyDict), after |-> d]

\* create_unified_feature as the conversation handlers call it, with the
\* activation (None or <<a>>) they pass.
UnifiedFeature(m, p, feature_uuid, activation, variant_id) ==
    LET u == CreateUnifiedFeature(GetDict(m, variant_id).after,
                                  GetDict(p, variant_id).after,
                                  feature_uuid, variant_id)
    IN [uuid |-> u.uuid, modification |-> u.modification,
        pending_modification |-> u.pending_modification,
        activation |-> activation]

\* The activation inspect() reports, in tenths.
ACTIVATION == 5

\* What features.inspect(...).top(k) gives: an error, or the activated
\* features in order.
InspectAnswers ==
    {[kind |-> "raise", top |-> <<>>]}
        \cup {[kind |-> "ok", top |-> l] : l \in {<<>>, <<"humor">>}}

\* What features._list(ids=[id]) answers while a variant or a table is
\* built: the feature, nothing (the feature is no longer known upstream),
\* or an error.
ListOutcomes == {"found", "empty", "raise"}

\* The call returns / raises.
ConvReturn(c, result) ==
    [c EXCEPT !.pc = "done", !.status = "ok", !.result = result]

ConvRaise(c) == [c EXCEPT !.pc = "done", !.status = "raised"]

\* A request as it starts.
ConvRequest(op, conversation_id, variant_id) ==
    [IdleConv EXCEPT !.op = op, !.conversation_id = conversation_id,
                     !.variant_id = variant_id]

\* get_conversation_features returns the list / raises: to its caller, or
\* into get_table_features (lines 290-301), which takes an error for an
\* empty list and goes on at "table_start".
FeaturesReturned(c, features) ==
    IF c.op = "features" THEN ConvReturn(c, features)
    ELSE [c EXCEPT !.pc = "table_start", !.features = features]

FeaturesRaised(c) ==
    IF c.op = "features" THEN ConvRaise(c)
    ELSE [c EXCEPT !.pc = "table_start", !.features = <<>>,
                   !.inspect_failed = TRUE]

\* build_ember_variant returns the variant: to its caller, or into
\* get_conversation_features, which awaits features.inspect (lines 208-217).
BuildReturned(c) ==
    IF c.op = "build" THEN ConvReturn(c, c.variant)
    ELSE [c EXCEPT !.pc = "inspect"]

\* build_ember_variant raises; get_conversation_features re-raises (lines
\* 204-206).
BuildRaised(c) == IF c.op = "build" THEN ConvRaise(c) ELSE FeaturesRaised(c)

\* The features the loop of build_ember_variant can take next: the dict
\* keeps its own order, which the model does not record, so any feature
\* of the dict not taken yet; NoId when there is none.
IterChoices(confirmed_features, visited) ==
    IF DOMAIN confirmed_features \ visited = {} THEN {NoId}
    ELSE DOMAIN confirmed_features \ visited

\* build_ember_variant, lines 245-258: the for statement asks the iterator
\* of confirmed_features.items() for the next item.  The iterator raises
\* RuntimeError when the dict has changed size since the loop began, and
\* when it finds an item after it has given out as many as the dict had;
\* otherwise the loop ends or takes feature k with its value and awaits
\* features._list.
BuildAdvance(c, confirmed_features, k) ==
    IF Cardinality(DOMAIN confirmed_features) # c.size THEN BuildRaised(c)
    ELSE IF k = NoId THEN BuildReturned(c)
    ELSE IF Len(c.visits) >= c.size THEN BuildRaised(c)
    ELSE [c EXCEPT !.pc = "build_lookup", !.current = k,
                   !.value = confirmed_features[k],
                   !.visited = @ \cup {k}, !.visits = Append(@, k)]

\* build_ember_variant, lines 234-245: the check of the variant id, the
\* new Variant, the read of the confirmed edits and the start of the loop.
EnterBuild(c, confirmed_features, k) ==
    IF c.variant_id # DEMO_VARIANT_ID THEN BuildRaised(c)
    ELSE IF confirmed_features = EmptyDict THEN BuildReturned(c)
    ELSE BuildAdvance(
             [c EXCEPT !.size = Cardinality(DOMAIN confirmed_features)],
             confirmed_features, k)

\* Variant of MissingModified that keeps the activated features.
MissingModifiedAll(c, m, p) ==
    LET modified_feature_uuids == DOMAIN GetDict(m, DEMO_VARIANT_ID).value
        pending_feature_uuids == DOMAIN GetDict(p, DEMO_VARIANT_ID).value
    IN modified_feature_uuids \cup pending_feature_uuids

\* get_table_features, lines 303-310: the features with an edit that are
\* not among the activated ones.
MissingModified(c, m, p) ==
    LET modified_feature_uuids == DOMAIN GetDict(m, DEMO_VARIANT_ID).value
        pending_feature_uuids == DOMAIN GetDict(p, DEMO_VARIANT_ID).value
        activated_uuids == {c.features[i].uuid : i \in 1..Len(c.features)}
    IN (modified_feature_uuids \cup pending_feature_uuids) \ activated_uuids

\* The features the loop over a set can take next (a set has no order).
TableChoices(missing) == IF missing = {} THEN {NoId} ELSE missing

\* get_table_features, lines 317-320 and 343-344: the loop takes feature u
\* and awaits features._list, or is over and the table is returned.
TableNext(c, u) ==
    IF u = NoId THEN ConvReturn(c, c.table)
    ELSE [c EXCEPT !.pc = "table_lookup", !.current = u,
                   !.missing = @ \ {u}]

\* The rest of a step that has brought get_table_features to line 303.
TableBegin(c, m, p, u) ==
    IF c.pc # "table_start" THEN c
    ELSE TableNext([c EXCEPT !.table = c.features,
                             !.missing = MissingModified(c, m, p)], u)

\* u is a choice the step can make.
TableChoice(c, m, p, u) ==
    IF c.pc # "table_start" THEN u = NoId
    ELSE u \in TableChoices(MissingModified(c, m, p))

\* The ledger after the reads of lines 304-305 (when the step makes them).
AfterTableReads(c, d) ==
    IF c.pc # "table_start" THEN d ELSE GetDict(d, DEMO_VARIANT_ID).after

\* send_message, lines 104-138: the check of the conversation, the stored
\* messages, a new Variant of the base model and the generation request.
SendStart(conversation_id, n) ==
    /\ conv.pc = "idle"
    /\ LET c == ConvRequest("send", conversation_id, DEMO_VARIANT_ID)
       IN IF conversation_id # DEMO_CONVERSATION_ID
          THEN /\ conv' = ConvRaise(c)
               /\ UNCHANGED conversation_messages
          ELSE /\ conv' = [c EXCEPT !.pc = "send_open",
                                    !.generated_with = << <<>> >>]
               /\ conversation_messages' =
                      DictSet(conversation_messages, conversation_id, n)
    /\ UNCHANGED <<vars, conversation_activated_features>>

\* send_message, lines 133-141: the generation request returns the stream
\* or raises.
SendOpened(ok) ==
    /\ conv.pc = "send_open"
    /\ conv' = IF ok THEN [conv EXCEPT !.pc = "send_stream"]
               ELSE ConvRaise(conv)
    /\ UNCHANGED <<vars, conversation_messages,
                   conversation_activated_features>>

\* send_message, lines 141-156: the stream is read to its end, or raises.
SendStreamed(ok) ==
    /\ conv.pc = "send_stream"
    /\ conv' = IF ok THEN ConvReturn(conv, <<>>) ELSE ConvRaise(conv)
    /\ UNCHANGED <<vars, conversation_messages,
                   conversation_activated_features>>

\* build_ember_variant called on its own.
BuildStart(variant_id, k) ==
    /\ conv.pc = "idle"
    /\ LET got == GetDict(modified, variant_id)
           c == ConvRequest("build", NoId, variant_id)
       IN /\ k \in IterChoices(got.value, {})
          /\ conv' = EnterBuild(c, got.value, k)
          /\ modified' = IF variant_id = DEMO_VARIANT_ID THEN got.after
                         ELSE modified
    /\ UNCHANGED <<pending, task, history, conversation_messages,
                   conversation_activated_features>>

\* build_ember_variant, lines 245-258: features._list answers; the feature
\* is set on the variant with the value the loop took, or the item is
\* skipped; then the loop goes on with the dict as it is now.
BuildLooked(outcome, k, u) ==
    /\ conv.pc = "build_lookup"
    /\ LET c1 == IF outcome = "found"
                 THEN [conv EXCEPT
                          !.variant = Append(@, [feature |-> conv.current,
                                                 value |-> conv.value]),
                          !.resolved = @ \cup {conv.current}]
                 ELSE conv
           confirmed_features == DictGet(modified, conv.variant_id, EmptyDict)
           c2 == BuildAdvance(c1, confirmed_features, k)
       IN /\ k \in IterChoices(confirmed_features, c1.visited)
          /\ TableChoice(c2, modified, pending, u)
          /\ conv' = TableBegin(c2, modified, pending, u)
          /\ modified' = AfterTableReads(c2, modified)
          /\ pending' = AfterTableReads(c2, pending)
    /\ UNCHANGED <<task, history, conversation_messages,
                   conversation_activated_features>>

\* get_conversation_features (lines 183-206), called on its own or by
\* get_table_features (lines 283-301), up to the first await.
FeaturesStart(op, conversation_id, k, u) ==
    /\ conv.pc = "idle"
    /\ LET c == ConvRequest(op, conversation_id, DEMO_VARIANT_ID)
           got == GetDict(modified, DEMO_VARIANT_ID)
           c2 == IF conversation_id # DEMO_CONVERSATION_ID THEN ConvRaise(c)
                 ELSE IF DictGet(conversation_messages, conversation_id, 0) = 0
                      THEN FeaturesReturned(c, <<>>)
                      ELSE EnterBuild(c, got.value, k)
           built == conversation_id = DEMO_CONVERSATION_ID
                       /\ DictGet(conversation_messages, conversation_id, 0) # 0
       IN /\ k \in (IF built THEN IterChoices(got.value, {}) ELSE {NoId})
          /\ TableChoice(c2, modified, pending, u)
          /\ conv' = TableBegin(c2, modified, pending, u)
          /\ modified' =
                 AfterTableReads(c2, IF built THEN got.after ELSE modified)
          /\ pending' = AfterTableReads(c2, pending)
    /\ UNCHANGED <<task, history, conversation_messages,
                   conversation_activated_features>>

\* get_conversation_features, lines 211-253: features.inspect answers; each
\* activation becomes a unified feature and is remembered as activated.
Inspected(answer, u) ==
    /\ conv.pc = "inspect"
    /\ LET features ==
               [i \in 1..Len(answer.top) |->
                   UnifiedFeature(modified, pending, answer.top[i],
                                  <<ACTIVATION>>, DEMO_VARIANT_ID)]
           c2 == IF answer.kind = "raise" THEN FeaturesRaised(conv)
                 ELSE FeaturesReturned(conv, features)
           read == answer.kind = "ok" /\ answer.top # <<>>
       IN /\ TableChoice(c2, modified, pending, u)
          /\ conv' = TableBegin(c2, modified, pending, u)
          /\ conversation_activated_features' =
                 IF read
                 THEN DictSet(conversation_activated_features,
                              conv.conversation_id,
                              DictGet(conversation_activated_features,
                                      conv.conversation_id, {})
                                  \cup {answer.top[i] :
                                           i \in 1..Len(answer.top)})
                 ELSE conversation_activated_features
          /\ modified' =
                 AfterTableReads(c2, IF read
                                     THEN GetDict(modified, DEMO_VARIANT_ID).after
                                     ELSE modified)
          /\ pending' =
                 AfterTableReads(c2, IF read
                                     THEN GetDict(pending, DEMO_VARIANT_ID).after
                                     ELSE pending)
    /\ UNCHANGED <<task, history, conversation_messages>>

\* get_table_features, lines 317-344: features._list answers; the feature
\* is added to the table with its edits as they are now, or skipped.
TableLooked(outcome, u) ==
    /\ conv.pc = "table_lookup"
    /\ LET c1 == IF outcome = "found"
                 THEN [conv EXCEPT !.table =
                          Append(@, UnifiedFeature(modified, pending,
                                                   conv.current, None,
                                                   DEMO_VARIANT_ID))]
                 ELSE [conv EXCEPT !.omitted = @ \cup {conv.current}]
       IN /\ u \in TableChoices(c1.missing)
          /\ conv' = TableNext(c1, u)
          /\ modified' = IF outcome = "found"
                         THEN GetDict(modified, DEMO_VARIANT_ID).after
                         ELSE modified
          /\ pending' = IF outcome = "found"
                        THEN GetDict(pending, DEMO_VARIANT_ID).after
                        ELSE pending
    /\ UNCHANGED <<task, history, conversation_messages,
                   conversation_activated_features>>

\* The caller has the result; the next conversation request can start.
ConvDeliver ==
    /\ conv.pc = "done"
    /\ conv' = IdleConv
    /\ UNCHANGED <<vars, conversation_messages,
                   conversation_activated_features>>

\* A step of the client of the variant router.  Its response reaches it
\* before the next conversation request is looked at, and at most
\* MaxDisturbances of its requests start while a conversation request is
\* suspended (starts says that the step starts one).
Disturbing(starts) ==
    /\ conv.pc # "done"
    /\ (starts /\ conv.pc # "idle") => conv.disturbances < MaxDisturbances
    /\ conv' = [conv EXCEPT
                   !.disturbed = @ \/ (conv.pc # "idle"
                                          /\ modified' # modified),
                   !.ledger_changed = @ \/ (conv.pc # "idle"
                                               /\ (modified' # modified
                                                     \/ pending' # pending)),
                   !.disturbances = IF starts /\ conv.pc # "idle"
                                    THEN @ + 1 ELSE @]
    /\ UNCHANGED <<call, completion, mgr, raced, requested,
                 conversation_messages,
                   conversation_activated_features>>

\* A step of a conversation request: the client of the variant router has
\* its last response.
Conversing ==
    /\ \A t \in ConversationTasks : task[t].pc # "done"
    /\ UNCHANGED <<call, completion, mgr, raced, requested>>

ConversationInit ==
    /\ conversation_messages = EmptyDict
    /\ conversation_activated_features = EmptyDict
    /\ conv = IdleConv
    /\ mgr = IdleMgr
    /\ raced = {}
    /\ requested = [t \in Tasks |-> <<>>]
    /\ variants = EmptyDict
    /\ objects = <<>>
    /\ comp = IdleComp
    /\ modified = EmptyDict
    /\ pending = EmptyDict
    /\ task = [t \in ConversationTasks |-> IdleTask]
    /\ lastOp = Op("none")
    /\ proposed = EmptyDict
    /\ call = IdleCall

ConversationNext ==
    \/ /\ \E t \in ConversationTasks, f \in KnownFeatures,
             s \in ConversationStrengths :
              SteerStart(t, DEMO_VARIANT_ID, f, s)
       /\ Disturbing(TRUE)
    \/ /\ \E t \in ConversationTasks : SteerFinish(t)
       /\ Disturbing(FALSE)
    \/ /\ \E t \in ConversationTasks : Commit(t, DEMO_VARIANT_ID)
       /\ Disturbing(TRUE)
    \/ /\ \E t \in ConversationTasks : Reject(t, DEMO_VARIANT_ID)
       /\ Disturbing(TRUE)
    \/ /\ \E t \in ConversationTasks, q \in ConversationQueries :
              SearchStart(t, DEMO_VARIANT_ID, q, 1)
       /\ Disturbing(TRUE)
    \/ /\ \E t \in ConversationTasks : SearchFinish(t)
       /\ Disturbing(FALSE)
    \/ /\ \E t \in ConversationTasks : Deliver(t)
       /\ Disturbing(FALSE)
    \/ /\ \E c \in ConversationIds, n \in {0, 1} : SendStart(c, n)
       /\ Conversing
    \/ /\ \E ok \in BOOLEAN : SendOpened(ok)
       /\ Conversing
    \/ /\ \E ok \in BOOLEAN : SendStreamed(ok)
       /\ Conversing
    \/ /\ \E v \in VariantIds, k \in FeatureIds \cup {NoId} : BuildStart(v, k)
       /\ Conversing
    \/ /\ \E outcome \in ListOutcomes, k \in FeatureIds \cup {NoId},
             u \in FeatureIds \cup {NoId} : BuildLooked(outcome, k, u)
       /\ Conversing
    \/ /\ \E op \in {"features", "table"}, c \in ConversationIds,
             k \in FeatureIds \cup {NoId}, u \in FeatureIds \cup {NoId} :
              FeaturesStart(op, c, k, u)
       /\ Conversing
    \/ /\ \E answer \in InspectAnswers, u \in FeatureIds \cup {NoId} :
              Inspected(answer, u)
       /\ Conversing
    \/ /\ \E outcome \in ListOutcomes, u \in FeatureIds \cup {NoId} :
              TableLooked(outcome, u)
       /\ Conversing
    \/ /\ ConvDeliver
       /\ Conversing

ConversationSpec == ConversationInit /\ [][ConversationNext]_allvars

----------------------------------------------------------------------------
\* VariantManager (core/services/variant_manager.py) called on its own,
\* and FeatureService.steer_feature as the operation that edits a stored
\* Variant.  The methods of VariantManager have no await that suspends
\* them: each call is one step.

\* The ids str(uuid.uuid4()) gives: an id the store does not hold yet.
NewIds == {"u1", "u2"}

\* The variant ids of the requests.
ManagerVariantArgs == {NoVariantId, "default", "v1"} \cup NewIds

\* The value of the steer requests, in tenths.
ManagerValues == {2}

\* What features.search(label, top_k=1) answers: an error, nothing, or one
\* feature.
SteerAnswers ==
    {[kind |-> "raise", feature |-> NoId], [kind |-> "empty", feature |-> NoId]}
        \cup {[kind |-> "found", feature |-> f] : f \in Labels}

\* What features.search(query, top_k=k) answers to search_features: an
\* error, or features in rank order, the same feature possibly twice.
ManagerSearchAnswers ==
    {[kind |-> "raise", features |-> <<>>]}
        \cup {[kind |-> "ok", features |-> r] :
                 r \in {<<>>, <<"humor">>, <<"formality", "humor">>,
                        <<"humor", "formality">>, <<"humor", "humor">>}}

\* The queries and top_k of the search_features requests (20 is the
\* default of line 101).
ManagerQueries == {<<"w", "i", "t">>}
ManagerTopKs == {5, 20}

\* One call of client.features.search and one call of Variant.set or
\* Variant.clear, as the external service and the Variant see them.
SearchCall(query, model, top_k) ==
    [query |-> query, model |-> model, top_k |-> top_k]
EditCall(op, variant, feature, value) ==
    [op |-> op, variant |-> variant, feature |-> feature, value |-> value]

\* Variant of VariantClear that stores a zero instead of removing the edit.
VariantClearToZero(objs, variant, feature) ==
    [objs EXCEPT ![variant].edits = DictSet(@, feature, 0)]

\* variant.clear(feature): the edit of the feature is removed, if any.
VariantClear(objs, variant, feature) ==
    [objs EXCEPT ![variant].edits = DictDel(@, feature)]

\* Variant of ToFeatureActivations that lists the features in the opposite
\* order.
ToFeatureActivationsReversed(features) ==
    [i \in 1..Len(features) |->
        [label |-> features[Len(features) + 1 - i], activation |-> 0]]

\* search_features, lines 122-128: one FeatureActivation per feature, with
\* its label and the activation 0.0.
ToFeatureActivations(features) ==
    [i \in 1..Len(features) |-> [label |-> features[i], activation |-> 0]]

\* variant.json(): the base model and the edits as a collection of
\* feature/value entries.
VariantJson(obj) ==
    [base_model |-> obj.base_model,
     edits |-> {[feature |-> f, value |-> obj.edits[f]] :
                   f \in DOMAIN obj.edits}]

\* Variant that forgets the edits, as Variant(base.model_name) would.
VariantFromJsonModelOnly(j) == Variant(j.base_model)

\* Variant.from_json(j): a new object with the base model and the edits of
\* the snapshot.
VariantFromJson(j) ==
    [base_model |-> j.base_model,
     edits |-> [f \in {e.feature : e \in j.edits} |->
                   (CHOOSE e \in j.edits : e.feature = f).value]]

\* VariantManager.create_variant, lines 53-87, with variant_id the id of
\* line 53.  A stored Variant is an object without __bool__ or __len__:
\* `not source` holds only for a missing source.
CreateVariant(vs, objs, session_id, source_variant_id, variant_id) ==
    LET vs1 == IF session_id \in DOMAIN vs THEN vs
               ELSE DictSet(vs, session_id, EmptyDict)
        from_source == source_variant_id # NoVariantId
    IN IF from_source /\ source_variant_id \notin DOMAIN vs1[session_id]
       THEN [variants |-> vs1, objects |-> objs, variant |-> 0,
             raised |-> TRUE]
       ELSE LET new_variant ==
                    IF from_source
                    THEN VariantFromJson(
                             VariantJson(objs[vs1[session_id][source_variant_id]]))
                    ELSE Variant(DEFAULT_MODEL)
                objs1 == Append(objs, new_variant)
            IN [variants |->
                    DictSet(vs1, session_id,
                            DictSet(vs1[session_id], variant_id, Len(objs1))),
                objects |-> objs1, variant |-> Len(objs1), raised |-> FALSE]

\* A call as it starts.
MgrCall(op, session_id, variant_id, id) ==
    [IdleMgr EXCEPT
        !.op = op, !.session_id = session_id, !.variant_id = variant_id,
        !.seen = session_id \in DOMAIN variants,
        !.known = session_id \in DOMAIN variants
                     /\ id \in DOMAIN variants[session_id]]

\* The call returns r / raises.
MgrReturn(m, variant, r) ==
    [m EXCEPT !.pc = "done", !.status = "ok", !.variant = variant,
              !.result = <<r>>]

MgrRaise(m, status) == [m EXCEPT !.pc = "done", !.status = status]

\* VariantManager.get_default_variant
ManagerGetDefaultVariant(session_id) ==
    /\ mgr.pc = "idle"
    /\ LET d == GetDefaultVariant(variants, objects, session_id)
       IN /\ variants' = d.variants
          /\ objects' = d.objects
          /\ mgr' = MgrReturn(MgrCall("get_default_variant", session_id,
                                      NoVariantId, "default"),
                              d.variant, d.variant)

\* VariantManager.get_variant
ManagerGetVariant(session_id, variant_id) ==
    /\ mgr.pc = "idle"
    /\ LET got == GetVariant(variants, objects, session_id, variant_id)
       IN /\ variants' = got.variants
          /\ objects' = got.objects
          /\ mgr' = MgrReturn(MgrCall("get_variant", session_id, variant_id,
                                      OrDefault(variant_id)),
                              got.variant, got.variant)

\* VariantManager.create_variant
ManagerCreateVariant(session_id, source_variant_id, variant_id) ==
    /\ mgr.pc = "idle"
    /\ variant_id \notin DOMAIN DictGet(variants, session_id, EmptyDict)
    /\ LET made == CreateVariant(variants, objects, session_id,
                                 source_variant_id, variant_id)
           m == MgrCall("create_variant", session_id, source_variant_id,
                        source_variant_id)
       IN /\ variants' = made.variants
          /\ objects' = made.objects
          /\ mgr' = IF made.raised THEN MgrRaise(m, "not_found")
                    ELSE MgrReturn([m EXCEPT !.created = variant_id],
                                   made.variant, made.variant)

\* VariantManager.get_variant_state, lines 140-155
ManagerGetVariantState(session_id, variant_id) ==
    /\ mgr.pc = "idle"
    /\ LET got == GetVariant(variants, objects, session_id, variant_id)
       IN /\ variants' = got.variants
          /\ objects' = got.objects
          /\ mgr' = MgrReturn(MgrCall("get_variant_state", session_id,
                                      variant_id, OrDefault(variant_id)),
                              got.variant,
                              VariantJson(got.objects[got.variant]))

\* FeatureService.steer_feature, lines 158-170: get_variant, then the
\* await of features.search.
ManagerSteerStart(session_id, variant_id, feature_label, value) ==
    /\ mgr.pc = "idle"
    /\ LET got == GetVariant(variants, objects, session_id, variant_id)
       IN /\ variants' = got.variants
          /\ objects' = got.objects
          /\ mgr' = [MgrCall("steer_feature", session_id, variant_id,
                             OrDefault(variant_id))
                        EXCEPT !.pc = "search", !.variant = got.variant,
                               !.feature = feature_label, !.value = value,
                               !.searches = <<SearchCall(feature_label,
                                                         got.variant, 1)>>]

\* FeatureService.steer_feature, lines 166-211: the search answers; the
\* first feature found is set on the Variant the call holds.
ManagerSteered(answer) ==
    /\ mgr.pc = "search"
    /\ mgr.op = "steer_feature"
    /\ IF answer.kind = "found"
       THEN /\ objects' = VariantSet(objects, mgr.variant, answer.feature,
                                     mgr.value)
            /\ mgr' = MgrReturn([mgr EXCEPT
                                    !.answered = answer.kind,
                                    !.found = <<answer.feature>>,
                                    !.applied = <<EditCall("set", mgr.variant,
                                                           answer.feature,
                                                           mgr.value)>>],
                                mgr.variant,
                                [label |-> mgr.feature,
                                 modified_value |-> mgr.value])
       ELSE /\ objects' = objects
            /\ mgr' = MgrRaise([mgr EXCEPT !.answered = answer.kind],
                               IF answer.kind = "empty"
                               THEN "not_found" ELSE "raised")
    /\ UNCHANGED variants

\* FeatureService.clear_feature, lines 220-234: get_variant, then the
\* await of features.search.
ManagerClearStart(session_id, variant_id, feature_label) ==
    /\ mgr.pc = "idle"
    /\ LET got == GetVariant(variants, objects, session_id, variant_id)
       IN /\ variants' = got.variants
          /\ objects' = got.objects
          /\ mgr' = [MgrCall("clear_feature", session_id, variant_id,
                             OrDefault(variant_id))
                        EXCEPT !.pc = "search", !.variant = got.variant,
                               !.feature = feature_label,
                               !.searches = <<SearchCall(feature_label,
                                                         got.variant, 1)>>]

\* FeatureService.clear_feature, lines 230-266: the search answers; the
\* first feature found is cleared on the Variant the call holds.
ManagerCleared(answer) ==
    /\ mgr.pc = "search"
    /\ mgr.op = "clear_feature"
    /\ IF answer.kind = "found"
       THEN /\ objects' = VariantClear(objects, mgr.variant, answer.feature)
            /\ mgr' = MgrReturn([mgr EXCEPT
                                    !.answered = answer.kind,
                                    !.found = <<answer.feature>>,
                                    !.applied = <<EditCall("clear", mgr.variant,
                                                           answer.feature,
                                                           0)>>],
                                mgr.variant, [label |-> mgr.feature])
       ELSE /\ objects' = objects
            /\ mgr' = MgrRaise([mgr EXCEPT !.answered = answer.kind],
                               IF answer.kind = "empty"
                               THEN "not_found" ELSE "raised")
    /\ UNCHANGED variants

\* FeatureService.search_features, lines 104-119: get_variant, then the
\* await of features.search.
ManagerSearchStart(query, session_id, variant_id, top_k) ==
    /\ mgr.pc = "idle"
    /\ LET got == GetVariant(variants, objects, session_id, variant_id)
       IN /\ variants' = got.variants
          /\ objects' = got.objects
          /\ mgr' = [MgrCall("search_features", session_id, variant_id,
                             OrDefault(variant_id))
                        EXCEPT !.pc = "search", !.variant = got.variant,
                               !.query = query, !.top_k = top_k,
                               !.searches = <<SearchCall(query, got.variant,
                                                         top_k)>>]

\* FeatureService.search_features, lines 115-146: the search answers; an
\* error is logged and raised again.
ManagerSearched(answer) ==
    /\ mgr.pc = "search"
    /\ mgr.op = "search_features"
    /\ mgr' = IF answer.kind = "raise"
              THEN MgrRaise([mgr EXCEPT !.answered = answer.kind], "raised")
              ELSE MgrReturn([mgr EXCEPT !.answered = answer.kind,
                                        !.found = answer.features],
                             mgr.variant, ToFeatureActivations(answer.features))
    /\ UNCHANGED <<variants, objects>>

\* The caller has the result; the next call can start.
ManagerDeliver ==
    /\ mgr.pc = "done"
    /\ mgr' = IdleMgr
    /\ UNCHANGED <<variants, objects>>

ManagerNext ==
    \/ /\ \E s \in SessionIds : ManagerGetDefaultVariant(s)
       /\ UNCHANGED <<vars, call, comp, conversation, raced, requested>>
    \/ /\ \E s \in SessionIds, v \in ManagerVariantArgs :
              ManagerGetVariant(s, v)
       /\ UNCHANGED <<vars, call, comp, conversation, raced, requested>>
    \/ /\ \E s \in SessionIds, v \in ManagerVariantArgs, u \in NewIds :
              ManagerCreateVariant(s, v, u)
       /\ UNCHANGED <<vars, call, comp, conversation, raced, requested>>
    \/ /\ \E s \in SessionIds, v \in ManagerVariantArgs :
              ManagerGetVariantState(s, v)
       /\ UNCHANGED <<vars, call, comp, conversation, raced, requested>>
    \/ /\ \E s \in SessionIds, v \in ManagerVariantArgs, f \in Labels,
             x \in ManagerValues : ManagerSteerStart(s, v, f, x)
       /\ UNCHANGED <<vars, call, comp, conversation, raced, requested>>
    \/ /\ \E answer \in SteerAnswers : ManagerSteered(answer)
       /\ UNCHANGED <<vars, call, comp, conversation, raced, requested>>
    \/ /\ \E s \in SessionIds, v \in ManagerVariantArgs, f \in Labels :
              ManagerClearStart(s, v, f)
       /\ UNCHANGED <<vars, call, comp, conversation, raced, requested>>
    \/ /\ \E answer \in SteerAnswers : ManagerCleared(answer)
       /\ UNCHANGED <<vars, call, comp, conversation, raced, requested>>
    \/ /\ \E q \in ManagerQueries, s \in SessionIds,
             v \in ManagerVariantArgs, k \in ManagerTopKs :
              ManagerSearchStart(q, s, v, k)
       /\ UNCHANGED <<vars, call, comp, conversation, raced, requested>>
    \/ /\ \E answer \in ManagerSearchAnswers : ManagerSearched(answer)
       /\ UNCHANGED <<vars, call, comp, conversation, raced, requested>>
    \/ /\ ManagerDeliver
       /\ UNCHANGED <<vars, call, comp, conversation, raced, requested>>

ManagerSpec == Init /\ [][ManagerNext]_allvars

----------------------------------------------------------------------------
\* Vocabulary of the properties.

\* The confirmed and the pending edits of configuration v.
ConfirmedOf(m, v) == DictGet(m, v, EmptyDict)
PendingOf(p, v) == DictGet(p, v, EmptyDict)

\* effective(c)[f]: the pending value when there is one, else the confirmed
\* value, 0 standing for "no edit"; read off the feature as the client sees it.
EffectiveValue(m, p, f, v) ==
    LET u == CreateUnifiedFeature(m, p, f, v)
    IN IF u.pending_modification # None THEN u.pending_modification[1]
       ELSE u.modification

\* This step is the one in which request t of kind op gets its response.
Finished(t, op) ==
    task[t].pc # "done" /\ task'[t].pc = "done" /\ task'[t].op = op

FinishedOk(t, op) == Finished(t, op) /\ task'[t].status = "ok"

----------------------------------------------------------------------------
\* C1: a successful propose of strength s for feature f on a known
\* configuration has -1 <= s <= 1, makes s the pending value of f whatever
\* was pending or confirmed before, returns s, and leaves effective(c)[f]
\* equal to s.
C1_ProposeSetsEffective ==
    [][\A t \in Tasks :
          FinishedOk(t, "steer") =>
              LET f == task[t].fid
                  s == task[t].val
                  v == task[t].vid
              IN /\ v = DEMO_VARIANT_ID
                 /\ -10 <= s /\ s <= 10
                 /\ f \in DOMAIN PendingOf(pending', v)
                 /\ PendingOf(pending', v)[f] = s
                 /\ task'[t].ret = s
                 /\ EffectiveValue(modified', pending', f, v) = s]_vars

\* A propose of -1.0 has succeeded on a feature whose confirmed value is 1.0.
C1_Witness ==
    \E t \in Tasks :
        /\ task[t].pc = "done" /\ task[t].op = "steer" /\ task[t].status = "ok"
        /\ task[t].ret = -10
        /\ task[t].fid \in DOMAIN ConfirmedOf(modified, DEMO_VARIANT_ID)
        /\ ConfirmedOf(modified, DEMO_VARIANT_ID)[task[t].fid] = 10
        /\ EffectiveValue(modified, pending, task[t].fid, DEMO_VARIANT_ID) = -10

C3_NoZeroConfirmed ==
    \A v \in DOMAIN modified : \A f \in DOMAIN modified[v] : modified[v][f] # 0

\* A zero was committed for a feature that had no confirmed entry.
C3_Witness ==
    /\ lastOp.op = "commit" /\ lastOp.skipped
    /\ DEMO_VARIANT_ID \in DOMAIN modified

\* C4: reject(c) empties the pending edits, leaves the confirmed edits as
\* they were and reports success also when nothing was pending; proposals
\* never touch the confirmed edits, so that after the reject effective(c) is
\* again the confirmed edits the proposals were made on.
C4_RejectRestoresConfirmed ==
    [][\A t \in Tasks :
          /\ (Finished(t, "reject") /\ task'[t].vid = DEMO_VARIANT_ID) =>
                 /\ task'[t].status = "ok" /\ task'[t].success
                 /\ PendingOf(pending', DEMO_VARIANT_ID) = EmptyDict
                 /\ modified' = modified
                 /\ \A f \in FeatureIds :
                        EffectiveValue(modified', pending', f, DEMO_VARIANT_ID)
                            = DictGet(ConfirmedOf(modified, DEMO_VARIANT_ID), f, 0)
          /\ Finished(t, "steer") => modified' = modified]_vars

\* A reject has just discarded pending edits of a configuration that has
\* confirmed edits.
C4_Witness ==
    /\ lastOp.op = "reject" /\ lastOp.dropped
    /\ ConfirmedOf(modified, DEMO_VARIANT_ID) # EmptyDict
    /\ \E t \in Tasks :
           task[t].pc = "done" /\ task[t].op = "reject" /\ task[t].status = "ok"

C6_LastProposalWins ==
    [][\A t \in Tasks :
          (Finished(t, "commit") /\ task'[t].vid = DEMO_VARIANT_ID) =>
              LET c2 == ConfirmedOf(modified', DEMO_VARIANT_ID)
              IN \A f \in DOMAIN proposed :
                     IF proposed[f] # 0
                     THEN f \in DOMAIN c2 /\ c2[f] = proposed[f]
                     ELSE f \notin DOMAIN c2]_vars

\* A commit whose last proposal for humor was 0 left no humor entry, next to
\* a confirmed formality of 1.0.
C6_Witness ==
    /\ lastOp.op = "commit" /\ lastOp.skipped
    /\ "humor" \notin DOMAIN ConfirmedOf(modified, DEMO_VARIANT_ID)
    /\ "formality" \in DOMAIN ConfirmedOf(modified, DEMO_VARIANT_ID)
    /\ ConfirmedOf(modified, DEMO_VARIANT_ID)["formality"] = 10
    /\ proposed = EmptyDict

\* C7: a propose with a strength outside [-1, 1] or an unknown configuration
\* never reaches the feature lookup, a propose for a feature the external
\* service does not know never succeeds, every failed propose is a client
\* error that changes no edits, and every request naming an unknown
\* configuration is rejected before its first await without changing edits.
C7_RejectedRequestsChangeNothing ==
    [][\A t \in Tasks :
          /\ (task[t].pc = "idle" /\ task'[t].pc = "lookup") =>
                 /\ task'[t].vid = DEMO_VARIANT_ID
                 /\ -10 <= task'[t].val /\ task'[t].val <= 10
          /\ FinishedOk(t, "steer") => task'[t].fid \in KnownFeatures
          /\ (Finished(t, "steer") /\ task'[t].status # "ok") =>
                 (task'[t].status = "e400" /\ UNCHANGED ledger)
          /\ (task[t].pc = "idle" /\ task'[t].pc # "idle"
                  /\ (task'[t].vid # DEMO_VARIANT_ID
                          \/ (task'[t].op = "auto"
                                  /\ task'[t].cvid # DEMO_VARIANT_ID))) =>
                 /\ task'[t].pc = "done"
                 /\ task'[t].status \in {"e400", "e500"}
                 /\ UNCHANGED ledger]_vars

\* A propose for the unknown feature was refused as a client error while the
\* configuration has pending and confirmed edits.
C7_Witness ==
    /\ PendingOf(pending, DEMO_VARIANT_ID) # EmptyDict
    /\ ConfirmedOf(modified, DEMO_VARIANT_ID) # EmptyDict
    /\ \E t \in Tasks :
           /\ task[t].pc = "done" /\ task[t].op = "steer"
           /\ task[t].status = "e400" /\ task[t].fid = "missing"

\* C8: no step of an auto_steer run changes the confirmed edits of any
\* configuration or the pending edits of a configuration other than the
\* run's target.
C8_AutoSteerNeverCommits ==
    [][\A t \in Tasks :
          (task'[t] # task[t] /\ (task[t].op = "auto" \/ task'[t].op = "auto")) =>
              /\ modified' = modified
              /\ \A v \in ((DOMAIN pending) \cup (DOMAIN pending')) :
                     v # task'[t].cvid =>
                         PendingOf(pending', v) = PendingOf(pending, v)]_vars

\* An auto_steer run whose search found features has ended on a
\* configuration with pending and with confirmed edits.
C8_Witness ==
    /\ PendingOf(pending, DEMO_VARIANT_ID) # EmptyDict
    /\ ConfirmedOf(modified, DEMO_VARIANT_ID) # EmptyDict
    /\ \E t \in Tasks :
           /\ task[t].pc = "done" /\ task[t].op = "auto"
           /\ task[t].cvid = DEMO_VARIANT_ID /\ task[t].nfound > 0

\* C9: when the analysis capability yields zero keywords, auto_steer answers
\* success=false with no keywords and no features, without a feature search
\* and without changing any edits.
C9_ZeroKeywordsUnsuccessful ==
    [][\A t \in Tasks :
          (Finished(t, "auto") /\ task'[t].nkw = 0) =>
              /\ task'[t].status = "ok" /\ ~task'[t].success
              /\ task'[t].keywords = <<>> /\ task'[t].features = <<>>
              /\ task[t].pc \in {"keywords", "fallback"}
              /\ UNCHANGED ledger]_vars

\* C10: on a known configuration auto_steer always ends with a result value,
\* never with an error.
C10_AutoSteerNeverRaises ==
    [][\A t \in Tasks :
          (Finished(t, "auto") /\ task'[t].vid = DEMO_VARIANT_ID
               /\ task'[t].cvid = DEMO_VARIANT_ID) =>
              task'[t].status = "ok"]_vars

\* C11: an auto_steer run answers success=true only after its keyword and
\* search stages produced something, and a run whose keyword stage or search
\* stage produced nothing answers success=false.
C11_SuccessOnlyWhenProposed ==
    [][\A t \in Tasks :
          Finished(t, "auto") =>
              /\ (task'[t].status = "ok" /\ task'[t].success) =>
                     (task'[t].nkw > 0 /\ task'[t].nfound > 0)
              /\ (task'[t].nkw = 0 \/ task'[t].nfound = 0) =>
                     (task'[t].status = "ok" /\ ~task'[t].success)]_vars

\* The strengths auto_steer is to propose: -0.6 to 0.6 in steps of 0.2.
AutoSteerStrengths == {-6, -4, -2, 0, 2, 4, 6}

IsCharPrefix(a, s) == Len(a) <= Len(s) /\ a = SubSeq(s, 1, Len(a))

\* C14: the keyword-length guard returns keywords whose join has at most 100
\* characters; they are the first keywords of the input in order, only the
\* last of them possibly cut to a prefix; a list that fits comes back
\* unchanged.
C14_TruncationFitsAndIsPrefix ==
    (call.fn = "truncate" /\ call.pc = "done") =>
        LET keywords == call.keywords
            returned == call.result
            n == Len(returned)
        IN /\ Len(Join(returned)) <= QUERY_LIMIT
           /\ n <= Len(keywords)
           /\ \A i \in 1..(n - 1) : returned[i] = keywords[i]
           /\ n > 0 => IsCharPrefix(returned[n], keywords[n])
           /\ Len(Join(keywords)) <= QUERY_LIMIT => returned = keywords

\* The guard has shortened a list whose join is too long and kept some of
\* its keywords.
C14_Witness ==
    /\ call.fn = "truncate" /\ call.pc = "done"
    /\ Len(Join(call.keywords)) > QUERY_LIMIT
    /\ Len(call.result) > 0
    /\ Len(call.result) < Len(call.keywords)

\* The deltas of the chunk events that came from the given upstream stream,
\* joined in emission order.
RECURSIVE JoinDeltas(_, _)
JoinDeltas(events, source) ==
    IF events = <<>> THEN EmptyStr
    ELSE LET e == Head(events)
         IN (IF e.type = "chunk" /\ e.source = source THEN e.delta
             ELSE EmptyStr) \o JoinDeltas(Tail(events), source)

\* C15: a streaming completion with auto_steer whose pipeline applied
\* features emits no baseline chunk after a steered chunk and no chunk of
\* another stream, and nothing after a done event; when it ends without an
\* upstream failure, its events are the chunks followed by exactly one done
\* event, and that event carries auto_steered, the applied features (as
\* many as the edits made, with their values) and the baseline and steered
\* texts that are the baseline and steered chunk deltas joined in emission
\* order.
C15_StreamedComparison ==
    LET e == comp.events
        n == Len(e)
    IN (comp.stream /\ comp.steered_features # <<>>) =>
        /\ \A i \in 1..n : e[i].type = "chunk" =>
               e[i].source \in {"original", "steered"}
        /\ \A i \in 1..n : \A j \in (i + 1)..n :
               ~(e[i].source = "steered" /\ e[j].source = "original")
        /\ \A i \in 1..n : e[i].type # "chunk" => i = n
        /\ (comp.pc = "done" /\ ~comp.failed) =>
               /\ n > 0
               /\ e[n].type = "done"
               /\ e[n].auto_steered = <<TRUE>>
               /\ e[n].auto_steer_result # None
               /\ LET r == e[n].auto_steer_result[1]
                  IN /\ r.original_content = JoinDeltas(e, "original")
                     /\ r.steered_content = JoinDeltas(e, "steered")
                     /\ r.applied_features = comp.steered_features
                     /\ Len(r.applied_features) = Len(comp.applied)
                     /\ \A i \in 1..Len(comp.applied) :
                            r.applied_features[i].modified_value =
                                comp.applied[i].value

\* A stream that ended with a comparison after two baseline chunks with
\* content and at least one steered chunk with content.
C15_Witness ==
    /\ comp.pc = "done"
    /\ comp.stream
    /\ ~comp.failed
    /\ comp.steered_features # <<>>
    /\ Len(comp.original_content) = 2
    /\ Len(comp.steered_content) >= 1
    /\ comp.events[Len(comp.events)].type = "done"


\* C16: a streaming completion emits nothing after a done or an error
\* event, and when it is over its last event is its only terminal event;
\* after an upstream failure that event is an error and there is no done
\* event; a streaming request makes no upstream generation call without
\* streaming and returns no non-streaming response.
C16_OneTerminalEvent ==
    LET e == comp.events
        n == Len(e)
        Terminal(i) == e[i].type \in {"done", "error"}
    IN comp.stream =>
        /\ \A i \in 1..n : Terminal(i) => i = n
        /\ comp.pc = "done" => (n > 0 /\ Terminal(n))
        /\ (comp.pc = "done" /\ comp.failed) =>
               /\ e[n].type = "error"
               /\ \A i \in 1..n : e[i].type # "done"
        /\ (comp.pc = "done" /\ ~comp.failed) => e[n].type = "done"
        /\ \A i \in 1..Len(comp.generations) : comp.generations[i].stream
        /\ comp.response = NoResponse

\* A stream that failed upstream after two chunks were emitted.
C16_Witness ==
    /\ comp.stream
    /\ comp.pc = "done"
    /\ comp.failed
    /\ Len(comp.events) = 3
    /\ comp.events[1].type = "chunk"
    /\ comp.events[2].type = "chunk"
    /\ comp.events[3].type = "error"

\* C17: in a completion with auto_steer that applied edits, every baseline
\* generation is requested with the edits the configuration had before the
\* request, and every steered generation with the edits the run applied on
\* top of them, with and without streaming.
C17_BaselineWithoutRunEdits ==
    (comp.auto_steer /\ comp.applied # <<>>) =>
        \A i \in 1..Len(comp.generations) :
            LET g == comp.generations[i]
            IN /\ g.text = "baseline" => g.edits = comp.edits_before
               /\ g.text = "steered" =>
                      \A k \in 1..Len(comp.applied) :
                          comp.applied[k].feature \in DOMAIN g.edits

\* The place of a stage in the documented order.
StageRank(stage) ==
    CASE stage = "INIT" -> 0
      [] stage = "ANALYZE" -> 1
      [] stage = "SELECT" -> 2
      [] stage = "APPLY" -> 3
      [] stage = "GENERATE_BASELINE" -> 4
      [] stage = "GENERATE_STEERED" -> 5
      [] stage = "DONE" -> 6
      [] stage = "ERROR" -> 7

\* C18: the stages of a completion request with auto_steer occur in the
\* order ANALYZE, SELECT, APPLY, GENERATE_BASELINE, GENERATE_STEERED, DONE,
\* each at most once, with and without streaming (so no baseline generation
\* starts before APPLY is over), and a request in which a stage failed ends
\* in ERROR.
C18_StagesInOrder ==
    comp.auto_steer =>
        /\ \A i \in 1..Len(comp.stages) : \A j \in (i + 1)..Len(comp.stages) :
               StageRank(comp.stages[i]) < StageRank(comp.stages[j])
        /\ (comp.pc = "done" /\ comp.failed) =>
               comp.stages[Len(comp.stages)] = "ERROR"

\* C19: a completion without auto_steer goes INIT, GENERATE_BASELINE, DONE
\* (ERROR in place of DONE when the generation fails): it has looked the
\* variant up once, with the request's session and variant id, has sent one
\* generation request, with the variant stored under those ids and its
\* edits as they were, has called neither the analysis capability nor the
\* feature search, has changed no edit, and its response or done event
\* carries no AutoSteerResult and the request's variant id, "default" when
\* there was none.
C19_PlainCompletion ==
    LET id == IF comp.variant_id = NoVariantId THEN "default"
              ELSE comp.variant_id
        n == Len(comp.events)
    IN (comp.pc # "idle" /\ ~comp.auto_steer) =>
        /\ \/ comp.stages = <<"INIT", "GENERATE_BASELINE">>
           \/ comp.pc = "done" /\ ~comp.failed
                /\ comp.stages = <<"INIT", "GENERATE_BASELINE", "DONE">>
           \/ comp.pc = "done" /\ comp.failed
                /\ comp.stages = <<"INIT", "GENERATE_BASELINE", "ERROR">>
        /\ comp.lookups = <<[session_id |-> comp.session_id,
                             variant_id |-> comp.variant_id]>>
        /\ Len(comp.generations) = 1
        /\ comp.generations[1].variant = variants[comp.session_id][id]
        /\ comp.generations[1].edits = comp.edits_before
        /\ comp.generations[1].stream = comp.stream
        /\ comp.analysis_calls = 0
        /\ comp.search_calls = 0
        /\ objects[variants[comp.session_id][id]].edits = comp.edits_before
        /\ (comp.pc = "done" /\ ~comp.failed /\ ~comp.stream) =>
               /\ comp.response.kind = "response"
               /\ comp.response.auto_steer_result = None
               /\ ~comp.response.auto_steered
               /\ comp.response.variant_id = id
        /\ (comp.pc = "done" /\ ~comp.failed /\ comp.stream) =>
               /\ comp.events[n].type = "done"
               /\ comp.events[n].auto_steer_result = None
               /\ comp.events[n].auto_steered = None
               /\ comp.events[n].variant_id = id

\* A completion without auto_steer and without a variant id, whose last
\* message is from the user, has returned its response; the variant carried
\* edits of an earlier request.
C19_Witness ==
    /\ comp.pc = "done"
    /\ ~comp.auto_steer
    /\ ~comp.stream
    /\ comp.last_is_user
    /\ comp.variant_id = NoVariantId
    /\ comp.response.kind = "response"
    /\ comp.response.variant_id = "default"
    /\ comp.edits_before # EmptyDict

\* C20: a completion that ended in DONE reports an AutoSteerResult, with
\* auto_steered true, exactly when auto_steer was requested and the run
\* applied at least one feature, and reports it once (in the response, or
\* in one event of the stream); the content of a non-streaming response is
\* the baseline text, and the original_content of its AutoSteerResult when
\* it has one.
C20_ComparisonIffApplied ==
    LET e == comp.events
        carrying == {i \in 1..Len(e) : e[i].auto_steer_result # None}
        reported == IF comp.stream THEN carrying # {}
                    ELSE comp.response.auto_steer_result # None
    IN (comp.pc = "done" /\ comp.stages[Len(comp.stages)] = "DONE") =>
        /\ reported <=> (comp.auto_steer /\ comp.applied # <<>>)
        /\ Cardinality(carrying) <= 1
        /\ \A i \in carrying : e[i].auto_steered = <<TRUE>>
        /\ ~comp.stream =>
               /\ comp.response.auto_steered <=> reported
               /\ comp.response.content = comp.original_content
               /\ reported =>
                      comp.response.auto_steer_result[1].original_content =
                          comp.response.content

\* C21: a completion with auto_steer in which the analysis capability or a
\* feature search failed, and no generation failed, is not aborted: without
\* streaming it returns a response whose content is the baseline text, and
\* with streaming its events are chunks followed by one done event; when no
\* feature was applied there is no AutoSteerResult.
C21_PipelineFailureDegrades ==
    LET e == comp.events
        n == Len(e)
    IN (comp.pc = "done" /\ comp.auto_steer /\ comp.pipeline_failed
            /\ ~comp.generation_failed) =>
        IF comp.stream
        THEN /\ n > 0
             /\ e[n].type = "done"
             /\ \A i \in 1..(n - 1) : e[i].type = "chunk"
             /\ comp.applied = <<>> => e[n].auto_steer_result = None
        ELSE /\ comp.response.kind = "response"
             /\ comp.response.content = comp.original_content
             /\ comp.applied = <<>> => comp.response.auto_steer_result = None

\* C22: when a completion with auto_steer has ended, the edits of the
\* variant stored under the request's ids, which are the edits the next
\* completion generates with, are the edits it had before the request.
C22_AutoSteerLeavesEdits ==
    (comp.pc = "done" /\ comp.auto_steer) =>
        objects[variants[comp.session_id][OrDefault(comp.variant_id)]].edits
            = comp.edits_before

\* Task t is a steer request that was suspended at its lookup at the same
\* time as the steer request u for the same variant and feature.
RacedWith(t, u) ==
    /\ u # t
    /\ task[t].op = "steer"
    /\ task[u].op = "steer"
    /\ task[t].pc \in {"lookup", "done"}
    /\ task[u].pc \in {"lookup", "done"}
    /\ task[u].vid = task[t].vid
    /\ task[u].fid = task[t].fid
    /\ (t \in raced \/ u \in raced)

\* C23: when two steer requests for the same variant and feature were
\* suspended at their lookups together, each one whose lookup finds the
\* feature succeeds and its write sets the feature's pending value to its
\* own value, so the write that completes last decides it; the write leaves
\* the pending values of the other features and all confirmed edits as they
\* were, and a request whose lookup fails changes nothing.  Once both have
\* succeeded the pending value is one of the two proposed values (a
\* response carries the value of its request in ret).
C23_LastWriteWins ==
    [][\A t \in RaceTasks : \A u \in RaceTasks :
          /\ (RacedWith(t, u) /\ task[t].pc = "done" /\ task[u].pc = "done"
                  /\ task[t].status = "ok" /\ task[u].status = "ok") =>
                 pending[task[t].vid][task[t].fid]
                     \in {task[t].ret, task[u].ret}
          /\ (RacedWith(t, u) /\ task[t].pc = "lookup"
                  /\ task'[t].pc = "done") =>
                 LET v == task[t].vid
                     f == task[t].fid
                     before == DictGet(pending, v, EmptyDict)
                 IN /\ modified' = modified
                    /\ task'[t].status = "ok" =>
                           /\ f \in KnownFeatures
                           /\ pending'[v][f] = task[t].val
                           /\ task'[t].ret = task[t].val
                           /\ DOMAIN pending'[v] = DOMAIN before \cup {f}
                           /\ \A g \in DOMAIN before \ {f} :
                                  pending'[v][g] = before[g]
                           /\ \A w \in DOMAIN pending' \ {v} :
                                  w \in DOMAIN pending /\ pending'[w] = pending[w]
                    /\ task'[t].status # "ok" => pending' = pending
      ]_vars

\* Both of two overlapping steer requests with different values have
\* succeeded, the one that reached its lookup first wrote last, another
\* feature has a pending value and there are confirmed edits.
C23_Witness ==
    \E t \in DOMAIN task : \E u \in DOMAIN task :
        /\ RacedWith(t, u)
        /\ t \in raced
        /\ task[t].pc = "done" /\ task[t].status = "ok"
        /\ task[u].pc = "done" /\ task[u].status = "ok"
        /\ task[t].ret # task[u].ret
        /\ pending[task[t].vid][task[t].fid] = task[u].ret
        /\ DOMAIN pending[task[t].vid] # {task[t].fid}
        /\ DictGet(modified, task[t].vid, EmptyDict) # EmptyDict

\* C24: the confirmed and the pending edits change only in a step in which
\* a propose, a commit or a reject completes with success: no step of
\* send_message, build_ember_variant, get_conversation_features or
\* get_table_features (with the create_unified_feature calls they make) and
\* no step of search_features changes either map, whether the call
\* returns or raises.
C24_OnlyEditOperationsChange ==
    [][(modified' # modified \/ pending' # pending) =>
          \E t \in ConversationTasks :
              /\ task[t].pc # "done"
              /\ task'[t].pc = "done"
              /\ task'[t].op \in {"steer", "commit", "reject"}
              /\ task'[t].status = "ok"
      ]_allvars

\* get_conversation_features has raised after build_ember_variant looked
\* features up, with confirmed and pending edits in the ledger.
C24_Witness ==
    /\ conv.pc = "done"
    /\ conv.op = "features"
    /\ conv.status = "raised"
    /\ conv.visits # <<>>
    /\ ConfirmedOf(modified, DEMO_VARIANT_ID) # EmptyDict
    /\ PendingOf(pending, DEMO_VARIANT_ID) # EmptyDict

\* C25: send_message generates with the confirmed edits: when no commit
\* has changed them since the call began, the Variant sent with the
\* generation request carries every confirmed edit with its value, and
\* nothing else (so no edit that is only pending).
C25_GenerationUsesConfirmed ==
    (conv.op = "send" /\ conv.generated_with # <<>> /\ ~conv.disturbed) =>
        LET confirmed == ConfirmedOf(modified, DEMO_VARIANT_ID)
            variant == conv.generated_with[1]
        IN /\ \A f \in DOMAIN confirmed :
                  \E i \in 1..Len(variant) :
                      variant[i] = [feature |-> f, value |-> confirmed[f]]
           /\ \A i \in 1..Len(variant) : variant[i].feature \in DOMAIN confirmed

\* The features of the built variant, in the order of the set calls.
BuiltFeatures(variant) == [i \in 1..Len(variant) |-> variant[i].feature]

\* C30: build_ember_variant on the demo variant returns without error; the
\* variant it returns carries the features whose lookup returned the
\* feature, in the order in which the loop took them, and skips those whose
\* lookup returned nothing or raised; when no commit changed the confirmed
\* edits meanwhile, every confirmed edit was looked up once and each
\* feature of the variant has its confirmed value (so no pending value).
C30_BuildSkipsUnresolved ==
    (conv.op = "build" /\ conv.pc = "done"
        /\ conv.variant_id = DEMO_VARIANT_ID) =>
        LET IsResolved(f) == f \in conv.resolved
            confirmed == ConfirmedOf(modified, DEMO_VARIANT_ID)
        IN /\ conv.status = "ok"
           /\ conv.result = conv.variant
           /\ BuiltFeatures(conv.variant) = SelectSeq(conv.visits, IsResolved)
           /\ ~conv.disturbed =>
                  /\ Len(conv.visits) = Cardinality(DOMAIN confirmed)
                  /\ {conv.visits[i] : i \in 1..Len(conv.visits)}
                         = DOMAIN confirmed
                  /\ \A i \in 1..Len(conv.variant) :
                         conv.variant[i].value
                             = confirmed[conv.variant[i].feature]

\* A call of the variant manager completes in this step.
ManagerCompletes(op) ==
    mgr.pc = "idle" /\ mgr'.pc = "done" /\ mgr'.op = op

\* What every step keeps of the store, and what a completed
\* get_default_variant or get_variant has done; with default_always, every
\* such call leaves the session with a 'default' entry, otherwise a
\* get_variant of an id the session holds is exempt.
LookupKeepsStore(default_always) ==
    /\ \A op \in {"get_default_variant", "get_variant"} :
           ManagerCompletes(op) =>
               LET s == mgr'.session_id
                   id == OrDefault(mgr'.variant_id)
               IN /\ mgr'.status = "ok"
                  /\ s \in DOMAIN variants'
                  /\ id \in DOMAIN variants'[s]
                  /\ mgr'.result = <<variants'[s][id]>>
                  /\ (default_always \/ ~mgr'.known) =>
                         /\ "default" \in DOMAIN variants'[s]
                         /\ objects'[variants'[s]["default"]].base_model
                                = DEFAULT_MODEL
                  /\ mgr'.known =>
                         /\ mgr'.result = <<variants[s][id]>>
                         /\ variants' = variants
                         /\ objects' = objects
    /\ \A s \in DOMAIN variants :
           /\ s \in DOMAIN variants'
           /\ \A id \in DOMAIN variants[s] :
                  /\ id \in DOMAIN variants'[s]
                  /\ variants'[s][id] = variants[s][id]
    /\ \A i \in 1..Len(objects) :
           /\ i <= Len(objects')
           /\ objects'[i].base_model = objects[i].base_model

\* C26 as stated: get_default_variant and get_variant always return, and
\* after either the session has an entry 'default' whose Variant has the
\* default base model; a lookup of an id the session holds returns the
\* stored object and changes nothing; no step removes an entry of the
\* store, points an id at another object or changes a base model.
C26_DefaultAfterAnyLookup == [][LookupKeepsStore(TRUE)]_allvars

\* C26, amended: as above, but the 'default' entry is there after
\* get_default_variant and after a get_variant of an id the session did
\* not hold; a get_variant of an id the session holds returns the stored
\* object and creates nothing, so a session whose first configuration
\* came from create_variant has no 'default' entry until one is asked for.
C26_DefaultAndStableStore == [][LookupKeepsStore(FALSE)]_allvars

\* get_variant has returned the Variant that create_variant stored, in a
\* session that has no 'default' entry.
C26_Witness ==
    /\ mgr.pc = "done"
    /\ mgr.op = "get_variant"
    /\ mgr.known
    /\ mgr.variant_id \in NewIds
    /\ mgr.result = <<variants[mgr.session_id][mgr.variant_id]>>
    /\ "default" \notin DOMAIN variants[mgr.session_id]

\* C27: get_variant with a non-default id the session does not hold stores
\* under that id a new Variant with the default base model and no edits,
\* an object other than the session's default Variant (so that an edit made
\* through one of the two ids does not show through the other).
C27_UnseenIdIsFresh ==
    (mgr.pc = "done" /\ mgr.op = "get_variant" /\ ~mgr.known
        /\ mgr.variant_id \notin {NoVariantId, "default"}) =>
        LET s == mgr.session_id
        IN /\ variants[s][mgr.variant_id] # variants[s]["default"]
           /\ objects[variants[s][mgr.variant_id]] = Variant(DEFAULT_MODEL)

\* C28: create_variant with a source id the session holds stores one new
\* Variant under the generated id, which the session did not hold: a new
\* object with the base model and the edits of the source; every id stored
\* before keeps its object and every object its edits.  With a source id
\* the session does not hold the call fails with not-found and no Variant
\* is stored.  An edit changes the one object it is made on, so the copy
\* and its source stay independent.
C28_CloneCopiesEdits ==
    [][/\ (ManagerCompletes("create_variant")
              /\ mgr'.variant_id # NoVariantId) =>
              LET s == mgr'.session_id
                  before == DictGet(variants, s, EmptyDict)
              IN IF mgr'.known
                 THEN LET c == mgr'.created
                          source == objects[variants[s][mgr'.variant_id]]
                      IN /\ mgr'.status = "ok"
                         /\ c \notin DOMAIN before
                         /\ DOMAIN variants'[s] = DOMAIN before \cup {c}
                         /\ \A id \in DOMAIN before :
                                variants'[s][id] = before[id]
                         /\ variants'[s][c] = Len(objects) + 1
                         /\ mgr'.result = <<variants'[s][c]>>
                         /\ Len(objects') = Len(objects) + 1
                         /\ \A i \in 1..Len(objects) : objects'[i] = objects[i]
                         /\ objects'[variants'[s][c]].edits = source.edits
                         /\ objects'[variants'[s][c]].base_model
                                = source.base_model
                 ELSE /\ mgr'.status = "not_found"
                      /\ objects' = objects
                      /\ DictGet(variants', s, EmptyDict) = before
       /\ (mgr.pc = "search" /\ mgr'.pc = "done") =>
              \A i \in 1..Len(objects) :
                  i # mgr.variant => objects'[i] = objects[i]
      ]_allvars

\* create_variant has copied a source that carries an edit.
C28_Witness ==
    /\ mgr.pc = "done"
    /\ mgr.op = "create_variant"
    /\ mgr.status = "ok"
    /\ mgr.known
    /\ mgr.created \in NewIds
    /\ objects[mgr.variant].edits # EmptyDict

\* C29: on a session the store has never seen, get_variant_state fails with
\* not-found, and so does create_variant with a source id.
C29_UnknownSessionNotFound ==
    (mgr.pc = "done" /\ ~mgr.seen) =>
        /\ mgr.op = "get_variant_state" => mgr.status = "not_found"
        /\ (mgr.op = "create_variant" /\ mgr.variant_id # NoVariantId) =>
               mgr.status = "not_found"

----------------------------------------------------------------------------
\* The parameters of a search: a non-blank query and a top_k of 1 to 100.
SearchParametersValid(query, top_k) ==
    /\ Strip(query) # EmptyStr
    /\ top_k >= 1
    /\ top_k <= SEARCH_TOP_K_MAX

\* C31: the external feature search is awaited only with a non-blank query
\* and a top_k of 1 to 100, whichever operation asks for it; a search
\* request for the demo variant within these limits goes on to the
\* external search with exactly the query and top_k the client sent, and
\* one with a blank query, a top_k of 0 or less or a top_k above 100 ends
\* at once as a validation error (400), without a call of the external
\* search.
C31_SearchValidatedBeforeCall ==
    [][\A t \in Tasks :
          /\ task'[t].pc = "search"
                => SearchParametersValid(task'[t].query, task'[t].topk)
          /\ (task[t].pc = "idle" /\ task'[t].op = "search") =>
                LET sent == requested'[t][1]
                IN IF /\ sent.variant_id = DEMO_VARIANT_ID
                      /\ SearchParametersValid(sent.query, sent.top_k)
                   THEN /\ task'[t].pc = "search"
                        /\ task'[t].query = sent.query
                        /\ task'[t].topk = sent.top_k
                   ELSE /\ task'[t].pc = "done"
                        /\ task'[t].status = "e400"
                        /\ task'[t].nfound = -1]_allvars

\* A search request with top_k = 101 for the demo variant was rejected.
C31_Witness ==
    \E t \in Tasks :
        /\ requested[t] # <<>>
        /\ requested[t][1].variant_id = DEMO_VARIANT_ID
        /\ Strip(requested[t][1].query) # EmptyStr
        /\ requested[t][1].top_k = SEARCH_TOP_K_MAX + 1
        /\ task[t].pc = "done"
        /\ task[t].op = "search"
        /\ task[t].status = "e400"

\* C32: when the first keyword alone is longer than 100 characters, the
\* guard returns that single keyword cut to its first 100 characters, and
\* not the empty list.
C32_LongFirstKeywordCut ==
    ( /\ call.fn = "truncate" /\ call.pc = "done"
      /\ Len(call.keywords) > 0
      /\ Len(call.keywords[1]) > QUERY_LIMIT )
        => call.result = <<Prefix(call.keywords[1], QUERY_LIMIT)>>

\* How a selection label matches a feature label: 1 when they are equal
\* without case and surrounding spaces, 2 when one contains the other, 3
\* when they share at least one word and at least half of the words of the
\* selection label, 4 when they do not match.
MatchRank(label, feature_label) ==
    LET wanted == Strip(Lower(label))
        offered == Lower(feature_label)
        shared == Cardinality(Words(wanted) \cap Words(offered))
    IN IF Strip(offered) = wanted THEN 1
       ELSE IF Contains(offered, wanted) \/ Contains(wanted, offered) THEN 2
       ELSE IF shared >= 1 /\ 2 * shared >= Cardinality(Words(wanted)) THEN 3
       ELSE 4

\* C33: _find_feature_uuid_by_label returns the uuid of the feature whose
\* label matches best (exact before containment before shared words),
\* wherever it stands in the list, and of the first such feature when
\* several match equally well; it returns None when no label matches.
C33_BestMatchThenFirst ==
    (call.fn = "find" /\ call.pc = "done") =>
        LET search_results == call.search_results
            rank(i) == MatchRank(call.label, search_results[i].label)
            matching == {i \in 1..Len(search_results) : rank(i) < 4}
        IN IF matching = {}
           THEN call.result = None
           ELSE \E i \in matching :
                  /\ \A j \in matching :
                        rank(i) < rank(j) \/ (rank(i) = rank(j) /\ i <= j)
                  /\ call.result = <<search_results[i].uuid>>

\* The second feature of the list was returned because it matches better
\* than the first, which matches too.
C33_Witness ==
    /\ call.fn = "find" /\ call.pc = "done"
    /\ Len(call.search_results) = 2
    /\ MatchRank(call.label, call.search_results[1].label) = 3
    /\ MatchRank(call.label, call.search_results[2].label) = 2
    /\ call.result = <<call.search_results[2].uuid>>
    /\ call.search_results[1].uuid # call.search_results[2].uuid

\* C34: an auto_steer run asks for the feature search only after a
\* non-empty keyword list, with top_k = 10 and with the guarded keywords
\* joined by spaces as the query, which has at most 100 characters.
C34_SearchAfterKeywords ==
    \A t \in DOMAIN task :
        (task[t].op = "auto" /\ task[t].pc = "search") =>
            /\ task[t].nkw > 0
            /\ task[t].topk = AUTO_STEER_TOP_K
            /\ task[t].query = Join(task[t].truncated_keywords)
            /\ Len(task[t].query) <= QUERY_LIMIT

SearchedOnce(query, top_k) ==
    /\ mgr.session_id \in DOMAIN variants
    /\ OrDefault(mgr.variant_id) \in DOMAIN variants[mgr.session_id]
    /\ mgr.searches =
           <<SearchCall(query,
                        variants[mgr.session_id][OrDefault(mgr.variant_id)],
                        top_k)>>

ServiceCompletes(op) ==
    mgr.pc = "search" /\ mgr'.pc = "done" /\ mgr'.op = op

\* C37: steer_feature and clear_feature search once, for the given label
\* with top_k = 1 on the Variant stored for the session and variant id.
\* When the search finds a feature they make one call on that Variant, set
\* with the given value or clear, for the first feature found, and the
\* serialized state of the Variant then holds exactly one edit of that
\* feature, with that value, or none; the other edits and the other
\* Variants stay as they were, and clear succeeds whether or not the
\* feature had an edit.  When the search finds nothing they fail with
\* not-found, and then, as when the search raises, no Variant has changed.
C37_SteerAndClearByLabel ==
    [][\A op \in {"steer_feature", "clear_feature"} :
          ServiceCompletes(op) =>
              LET held == variants[mgr'.session_id][OrDefault(mgr'.variant_id)]
                  edits == VariantJson(objects'[held]).edits
              IN /\ mgr'.searches = <<SearchCall(mgr'.feature, held, 1)>>
                 /\ mgr'.answered = "found" =>
                       LET hit == mgr'.found[1]
                           of_hit == {e \in edits : e.feature = hit}
                       IN /\ mgr'.status = "ok"
                          /\ mgr'.result[1].label = mgr'.feature
                          /\ IF op = "steer_feature"
                             THEN /\ mgr'.applied =
                                        <<EditCall("set", held, hit,
                                                   mgr'.value)>>
                                  /\ of_hit = {[feature |-> hit,
                                                value |-> mgr'.value]}
                             ELSE /\ mgr'.applied =
                                        <<EditCall("clear", held, hit, 0)>>
                                  /\ of_hit = {}
                          /\ edits \ of_hit =
                                 {e \in VariantJson(objects[held]).edits :
                                     e.feature # hit}
                          /\ \A i \in 1..Len(objects) :
                                 i # held => objects'[i] = objects[i]
                 /\ mgr'.answered = "empty" =>
                       /\ mgr'.status = "not_found"
                       /\ mgr'.applied = <<>>
                       /\ objects' = objects
                 /\ mgr'.answered = "raise" =>
                       /\ mgr'.status = "raised"
                       /\ mgr'.applied = <<>>
                       /\ objects' = objects]_allvars

\* clear_feature succeeded on a Variant that keeps an edit of another
\* feature.
C37_Witness ==
    /\ mgr.pc = "done" /\ mgr.op = "clear_feature"
    /\ mgr.status = "ok"
    /\ mgr.found[1] \notin DOMAIN objects[mgr.variant].edits
    /\ objects[mgr.variant].edits # EmptyDict

\* C38: the table get_table_features returns begins with the activated
\* features of the inspection (none when the inspection failed) and goes
\* on with modified features, which carry no activation; no feature id
\* occurs twice.  When no other request changed the edits during the call,
\* the modified features listed are exactly the features with a confirmed
\* or pending edit that are not activated and whose lookup resolved, and
\* every entry carries the confirmed value (0 when none) and the pending
\* value (none when none) of its feature.
C38_TableIsActivatedThenModified ==
    (conv.op = "table" /\ conv.pc = "done" /\ conv.status = "ok") =>
        LET table == conv.result
            n == Len(conv.features)
            confirmed == ConfirmedOf(modified, DEMO_VARIANT_ID)
            pending_features == PendingOf(pending, DEMO_VARIANT_ID)
            activated_uuids == {table[i].uuid : i \in 1..n}
        IN /\ n <= Len(table)
           /\ SubSeq(table, 1, n) = conv.features
           /\ conv.inspect_failed => n = 0
           /\ \A i \in 1..Len(table) :
                  (i <= n) = (table[i].activation # None)
           /\ \A i, j \in 1..Len(table) :
                  table[i].uuid = table[j].uuid => i = j
           /\ ~conv.ledger_changed =>
                  /\ {table[i].uuid : i \in (n + 1)..Len(table)}
                         = ((DOMAIN confirmed \cup DOMAIN pending_features)
                               \ activated_uuids) \ conv.omitted
                  /\ \A i \in 1..Len(table) :
                         LET f == table[i].uuid
                         IN /\ table[i].modification = DictGet(confirmed, f, 0)
                            /\ table[i].pending_modification =
                                   IF f \in DOMAIN pending_features
                                   THEN <<pending_features[f]>> ELSE None

\* The table holds an activated feature with an edit and, after it, a
\* modified feature; no other request changed the edits meanwhile.
C38_Witness ==
    /\ conv.op = "table" /\ conv.pc = "done" /\ conv.status = "ok"
    /\ ~conv.ledger_changed
    /\ Len(conv.features) = 1
    /\ Len(conv.result) = 2
    /\ conv.result[1].uuid \in DOMAIN PendingOf(pending, DEMO_VARIANT_ID)
                                 \cup DOMAIN ConfirmedOf(modified,
                                                         DEMO_VARIANT_ID)

\* C39: an edit proposed through the VariantService instance of one request
\* is in the ledger that the instance of any other request works on: it is
\* pending there with the proposed value, a commit through the other
\* instance confirms it (a zero removes the confirmed entry) and empties
\* the pending edits, and a reject through the other instance discards it
\* and leaves the confirmed edits alone.
C39_LedgerSharedByInstances ==
    [][\A t \in RaceTasks : \A u \in RaceTasks \ {t} :
          LET f == task[u].fid
              v == task[u].ret
          IN ( /\ task[u].pc = "done" /\ task[u].op = "steer"
               /\ task[u].status = "ok"
               /\ lastOp.op = "steer"
               /\ f \in DOMAIN proposed /\ proposed[f] = v ) =>
                 /\ f \in DOMAIN PendingOf(pending, DEMO_VARIANT_ID)
                 /\ PendingOf(pending, DEMO_VARIANT_ID)[f] = v
                 /\ FinishedOk(t, "commit") =>
                       /\ PendingOf(pending', DEMO_VARIANT_ID) = EmptyDict
                       /\ v # 0 =>
                             /\ f \in DOMAIN ConfirmedOf(modified',
                                                         DEMO_VARIANT_ID)
                             /\ ConfirmedOf(modified', DEMO_VARIANT_ID)[f] = v
                       /\ v = 0 =>
                             f \notin DOMAIN ConfirmedOf(modified',
                                                         DEMO_VARIANT_ID)
                 /\ FinishedOk(t, "reject") =>
                       /\ PendingOf(pending', DEMO_VARIANT_ID) = EmptyDict
                       /\ modified' = modified]_vars

\* One request has proposed an edit and another request has committed it.
C39_Witness ==
    \E t \in DOMAIN task : \E u \in DOMAIN task :
        /\ t # u
        /\ task[u].pc = "done" /\ task[u].op = "steer"
        /\ task[u].status = "ok" /\ task[u].ret # 0
        /\ task[t].pc = "done" /\ task[t].op = "commit"
        /\ task[t].status = "ok"
        /\ lastOp.op = "commit"
        /\ task[u].fid \in DOMAIN ConfirmedOf(modified, DEMO_VARIANT_ID)
        /\ ConfirmedOf(modified, DEMO_VARIANT_ID)[task[u].fid] = task[u].ret
        /\ PendingOf(pending, DEMO_VARIANT_ID) = EmptyDict

====
